---- MODULE Spec2Model ----
(***************************************************************************)
(* Model of the School-Teacher-Student API: the JWT token lifecycle        *)
(* (main.py), the student-document flow (routers/student_documents.py,     *)
(* crud.py) and the storage-key logic (s3_utils.py).                       *)
(*                                                                         *)
(* Text values the code takes apart (document names, keys, URLs) are       *)
(* sequences of one-character strings; values it only compares (user      *)
(* names, passwords, error messages) are plain strings.                    *)
(***************************************************************************)
EXTENDS Integers, Sequences, FiniteSets, TLC

VARIABLES
    cfg,        \* settings.aws_settings: endpoint, region, bucket (fixed at import)
    clock,      \* wall clock, whole seconds since the process started
    ticks,      \* number of clock advances so far (bounds the run)
    users,      \* table users: sequence of rows, in insert order
    schools,    \* table schools: set of rows
    teachers,   \* table teachers: set of rows
    students,   \* table students: set of ids
    documents,  \* table student_documents: sequence of rows, in insert order
    blob,       \* the bucket: key -> stored payload, for the stored keys
    issued,     \* every token a login or refresh response has carried so far
    resp,       \* the last request handled and the response it got
    kin,        \* key round trip: the inputs of the function call
    kout,       \* key round trip: the results of the function call
    tin,        \* token functions: the inputs of the function call
    tok,        \* token functions: the token created by the function call
    assoc,      \* table student_teacher: sequence of rows, in insert order
    flight      \* the requests being handled: slot -> the handler's local state

vars == <<cfg, clock, ticks, users, schools, teachers, students, documents,
          blob, issued, resp, kin, kout, tin, tok, assoc, flight>>

-----------------------------------------------------------------------------
(* Bounds of the model                                                     *)

MaxTicks == 2
MaxIssued == 4
MaxStudents == 1
MaxDocs == 2
MaxDocTicks == 1
MaxTeachers == 1
MaxSchools == 1
MaxFlights == 2

-----------------------------------------------------------------------------
(* Text helpers: Python str operations on sequences of characters          *)

Whitespace == {" ", "\t"}

RECURSIVE LStripSet(_, _)
LStripSet(s, cs) ==
    IF s # <<>> /\ Head(s) \in cs THEN LStripSet(Tail(s), cs) ELSE s

RECURSIVE RStripSet(_, _)
RStripSet(s, cs) ==
    IF s # <<>> /\ s[Len(s)] \in cs
    THEN RStripSet(SubSeq(s, 1, Len(s) - 1), cs) ELSE s

\* str.strip()
Strip(s) == RStripSet(LStripSet(s, Whitespace), Whitespace)

\* str.startswith(p)
StartsWith(s, p) == Len(s) >= Len(p) /\ SubSeq(s, 1, Len(p)) = p

\* s[n:]
From(s, n) == SubSeq(s, n + 1, Len(s))

\* index of the first character of s that is in cs, Len(s)+1 when none
FirstIn(s, cs) ==
    IF \E i \in 1..Len(s) : s[i] \in cs
    THEN CHOOSE i \in 1..Len(s) : s[i] \in cs /\ \A j \in 1..(i - 1) : s[j] \notin cs
    ELSE Len(s) + 1

\* index of the last "/" of s, 0 when none
LastSlash(s) ==
    IF \E i \in 1..Len(s) : s[i] = "/"
    THEN CHOOSE i \in 1..Len(s) : s[i] = "/" /\ \A j \in (i + 1)..Len(s) : s[j] # "/"
    ELSE 0

RECURSIVE Without(_, _)
Without(s, cs) ==
    IF s = <<>> THEN <<>>
    ELSE IF Head(s) \in cs THEN Without(Tail(s), cs)
    ELSE <<Head(s)>> \o Without(Tail(s), cs)

Digits == <<"0", "1", "2", "3", "4", "5", "6", "7", "8", "9">>

\* str(n) of a non-negative integer
RECURSIVE IntToStr(_)
IntToStr(n) ==
    IF n < 10 THEN <<Digits[n + 1]>>
    ELSE IntToStr(n \div 10) \o <<Digits[(n % 10) + 1]>>

-----------------------------------------------------------------------------
(* Object Storage Gateway (s3_utils.py)                                    *)
(* An unset or empty setting (None or "") is the empty sequence.           *)

DefaultRegion == <<"u", "s", "-", "e", "a", "s", "t", "-", "1">>

\* f"students/{student_id}/{document_name.strip()}"
DocumentKey(student_id, document_name) ==
    <<"s", "t", "u", "d", "e", "n", "t", "s", "/">> \o IntToStr(student_id)
        \o <<"/">> \o Strip(document_name)

\* get_file_url(bucket_name, key) under the settings c
get_file_url(c, bucket_name, key) ==
    IF c.s3_endpoint_url # <<>>
    THEN RStripSet(c.s3_endpoint_url, {"/"}) \o <<"/">> \o bucket_name \o <<"/">> \o key
    ELSE LET region == IF c.aws_region_name = <<>>
                       THEN DefaultRegion ELSE c.aws_region_name
         IN  <<"h", "t", "t", "p", "s", ":", "/", "/">> \o bucket_name
                 \o <<".", "s", "3", ".">> \o region
                 \o <<".", "a", "m", "a", "z", "o", "n", "a", "w", "s", ".", "c", "o", "m", "/">>
                 \o key

\* urllib.parse.urlparse(url).path, for a URL of the form scheme://netloc...:
\* tab characters are dropped, the netloc ends at the first of "/", "?", "#",
\* the fragment and the query are cut off, and the parameters (";...") of
\* the last path segment are cut off.
UrlParsePath(url) ==
    LET u       == Without(url, {"\t"})
        colon   == FirstIn(u, {":"})
        rest    == From(u, colon)                 \* after "scheme:"
        hier    == IF StartsWith(rest, <<"/", "/">>) THEN From(rest, 2) ELSE rest
        afterNl == IF StartsWith(rest, <<"/", "/">>)
                   THEN From(hier, FirstIn(hier, {"/", "?", "#"}) - 1)
                   ELSE rest
        noFrag  == SubSeq(afterNl, 1, FirstIn(afterNl, {"#"}) - 1)
        noQuery == SubSeq(noFrag, 1, FirstIn(noFrag, {"?"}) - 1)
        seg     == LastSlash(noQuery)
        semi    == seg + FirstIn(From(noQuery, seg), {";"})
    IN  SubSeq(noQuery, 1, semi - 1)

\* extract_key_from_url(object_url, bucket_name)
extract_key_from_url(object_url, bucket_name) ==
    LET path == LStripSet(UrlParsePath(object_url), {"/"})
    IN  IF bucket_name # <<>> /\ StartsWith(path, bucket_name \o <<"/">>)
        THEN From(path, Len(bucket_name) + 1)
        ELSE path

-----------------------------------------------------------------------------
(* Credential Store & Verifier (main.py)                                   *)

\* pwd_context.hash: a bcrypt hash determined by the password it was made from
hash_password(plain_password) == [scheme |-> "bcrypt", of |-> plain_password]

\* pwd_context.verify
verify_password(plain_password, password_hash) ==
    password_hash.scheme = "bcrypt" /\ password_hash.of = plain_password

\* db.query(User).filter(User.username == username).first() on the users
\* table u: <<>> is None, <<row>> the first row with that username
query_User_first(u, username) ==
    LET idx == {i \in 1..Len(u) : u[i].username = username}
    IN  IF idx = {} THEN <<>>
        ELSE <<u[CHOOSE i \in idx : \A j \in idx : i <= j]>>

\* mutant: the password is not verified
authenticate_user_db_NoVerify(u, username, password) ==
    query_User_first(u, username) # <<>>

\* authenticate_user_db(db, username, password) on the users table u
authenticate_user_db(u, username, password) ==
    LET user == query_User_first(u, username)
    IN  IF user = <<>> THEN FALSE
        ELSE verify_password(password, user[1].password_hash)

-----------------------------------------------------------------------------
(* Token Service (main.py)                                                 *)
(* A token is the record of its claims and the key that signed it; the     *)
(* claims are a record holding only the claims that are present.           *)

SECRET_KEY == "JWT_SECRET"
ACCESS_TOKEN_EXPIRE_MINUTES == 15
REFRESH_TOKEN_EXPIRE_DAYS == 7

\* what a client sends when it sends no token, an empty string, or a string
\* that is no JWT at all
NoToken == [absent |-> TRUE]
EmptyToken == [empty |-> TRUE]
GarbageToken == [garbage |-> TRUE]

\* timedelta(minutes=m), timedelta(days=d) in seconds
Minutes(m) == m * 60
Days(d) == d * 86400

\* an optional timedelta: <<>> is None, <<d>> is d seconds
\* expires_delta or default: Python takes the default for None and for a
\* zero timedelta (both are falsy)
DeltaOr(expires_delta, default) ==
    IF expires_delta = <<>> \/ expires_delta[1] = 0 THEN default ELSE expires_delta[1]

\* jwt.encode(claims, key, algorithm=ALGORITHM)
JwtEncode(claims, key) == [claims |-> claims, key |-> key]

\* mutant: the access token is marked as a refresh token
create_access_token_AsRefresh(data, expires_delta, now) ==
    LET expire    == now + DeltaOr(expires_delta, Minutes(ACCESS_TOKEN_EXPIRE_MINUTES))
        to_encode == [exp |-> expire, type |-> "refresh"] @@ data
    IN  JwtEncode(to_encode, SECRET_KEY)

\* create_access_token(data, expires_delta) called at time now
create_access_token(data, expires_delta, now) ==
    LET expire    == now + DeltaOr(expires_delta, Minutes(ACCESS_TOKEN_EXPIRE_MINUTES))
        to_encode == [exp |-> expire] @@ data
    IN  JwtEncode(to_encode, SECRET_KEY)

\* create_refresh_token(data, expires_delta) called at time now
create_refresh_token(data, expires_delta, now) ==
    LET expire    == now + DeltaOr(expires_delta, Days(REFRESH_TOKEN_EXPIRE_DAYS))
        to_encode == [exp |-> expire, type |-> "refresh"] @@ data
    IN  JwtEncode(to_encode, SECRET_KEY)

\* mutant: the token is refused from the second its exp names
JwtDecodes_StrictExp(token, now) ==
    /\ "claims" \in DOMAIN token
    /\ token.key = SECRET_KEY
    /\ token.claims.exp > now

\* mutant: exp is not looked at
JwtDecodes_NoExp(token, now) ==
    /\ "claims" \in DOMAIN token
    /\ token.key = SECRET_KEY

\* jwt.decode(token, SECRET_KEY, algorithms=[ALGORITHM]) returns the claims
\* (does not raise JWTError): the token is a JWT, its signature verifies
\* under SECRET_KEY and its exp is not in the past
JwtDecodes(token, now) ==
    /\ "claims" \in DOMAIN token
    /\ token.key = SECRET_KEY
    /\ ~(token.claims.exp < now)

Has(payload, claim) == claim \in DOMAIN payload

\* get_current_user(token): the principal, or the 401 it raises.  A request
\* without an Authorization header is refused by oauth2_scheme.
get_current_user(bearer, now) ==
    IF bearer = NoToken
    THEN [ok |-> FALSE, status |-> 401, error |-> "Not authenticated"]
    ELSE IF ~JwtDecodes(bearer, now)
    THEN [ok |-> FALSE, status |-> 401, error |-> "Could not validate credentials"]
    ELSE IF ~Has(bearer.claims, "sub")
    THEN [ok |-> FALSE, status |-> 401, error |-> "Could not validate credentials"]
    ELSE [ok |-> TRUE, username |-> bearer.claims.sub,
          is_admin |-> IF Has(bearer.claims, "is_admin")
                       THEN bearer.claims.is_admin ELSE FALSE]

\* mutant: every principal is admitted
get_current_admin_user_Any(current) == current

\* get_current_admin_user(current): raises 403 unless current is an admin
get_current_admin_user(current) ==
    IF ~current.is_admin
    THEN [ok |-> FALSE, status |-> 403, error |-> "Admin access required"]
    ELSE current

-----------------------------------------------------------------------------
(* Inputs of the requests                                                  *)

\* the username that registers, with its password; a username that never
\* registers; the passwords tried at login
Usernames == {"alice"}
UnknownUsernames == {"bob"}
RegisterPasswords == {"pw1"}
Passwords == {"pw1", "pw2"}
\* the clock advances by the lifetime of an access or of a refresh token
TickSteps == {Minutes(ACCESS_TOKEN_EXPIRE_MINUTES), Days(REFRESH_TOKEN_EXPIRE_DAYS)}
SchoolNames == {<<"A">>, <<" ", "A">>, <<" ">>}
Salaries == {12345}

\* tokens signed with the shared secret that no login or refresh issued
\* (minted by another holder of the secret): one without sub, one without
\* type, one refresh token with an empty sub
ForeignTokens ==
    { JwtEncode([type |-> "access", is_admin |-> TRUE, exp |-> Days(30)], SECRET_KEY),
      JwtEncode([sub |-> "alice", is_admin |-> FALSE, exp |-> Days(30)], SECRET_KEY),
      JwtEncode([sub |-> "", type |-> "refresh", is_admin |-> FALSE, exp |-> Days(30)], SECRET_KEY) }

\* an issued token re-signed with a key that is not the secret
Forged(t) == [t EXCEPT !.key = "OTHER_KEY"]

\* what a client can put in the Authorization header or in refresh_token
Presentable ==
    issued \cup {Forged(t) : t \in issued} \cup ForeignTokens
        \cup {NoToken, EmptyToken, GarbageToken}

-----------------------------------------------------------------------------
(* Responses.  resp records the request (op, req), the response (status,   *)
(* error, details, body) and what the request did on the way: whether the  *)
(* handler body ran, how many relational-store reads and writes it made    *)
(* and how many calls to the blob store.                                   *)

NoDetails == [none |-> TRUE]
NoBody == [none |-> TRUE]

Reply(op, req, status, error, details, body, ran, reads, writes, calls) ==
    [op |-> op, req |-> req, status |-> status, error |-> error,
     details |-> details, body |-> body, ran |-> ran,
     dbReads |-> reads, dbWrites |-> writes, blobCalls |-> calls]

\* the response of a request stopped by a dependency (401, 403): the
\* handler body does not run
Denied(op, req, d) ==
    Reply(op, req, d.status, d.error, NoDetails, NoBody, FALSE, 0, 0, 0)

\* mutant: a missing resource is reported as a server error
NotFoundError_AsServerError(op, req, resource, reads, calls) ==
    Reply(op, req, 500, "Internal server error", NoDetails, NoBody, TRUE, reads, 0, calls)

\* the response to NotFoundError(resource, identifier) raised by a handler
\* after reads relational-store reads and calls blob-store calls
NotFoundError(op, req, resource, reads, calls) ==
    Reply(op, req, 404,
          CASE resource = "Student" -> "Student not found"
            [] resource = "Document" -> "Document not found"
            [] resource = "File" -> "File not found",
          [resource |-> resource], NoBody, TRUE, reads, 0, calls)

\* the response sqlalchemy_exception_handler builds for the IntegrityError
\* of a violated constraint (kind is "UNIQUE" or "FOREIGN KEY")
sqlalchemy_exception_handler(op, req, kind, reads, writes, calls) ==
    Reply(op, req, 409,
          IF kind = "UNIQUE" THEN "Resource already exists"
          ELSE "Referenced resource does not exist",
          [database_error |-> kind \o " constraint failed"], NoBody,
          TRUE, reads, writes, calls)

\* the response general_exception_handler builds for an exception that no
\* other handler is registered for; exc is str(exc)
general_exception_handler(op, req, exc, reads, writes, calls) ==
    Reply(op, req, 500, "Internal server error", [exception |-> exc], NoBody,
          TRUE, reads, writes, calls)

\* SQLite's id for a new row of a table whose ids are ids: max + 1
NextId(ids) == IF ids = {} THEN 1 ELSE 1 + CHOOSE m \in ids : \A i \in ids : i <= m

InitialResp == Reply("none", NoBody, 0, "", NoDetails, NoBody, FALSE, 0, 0, 0)

-----------------------------------------------------------------------------
(* Authentication endpoints (main.py)                                      *)

\* mutant: the unique index on users.username refuses nothing
users_username_taken_Never(u, username) == FALSE

\* the unique index on users.username refuses the insert of a row with
\* this username into the users table u
users_username_taken(u, username) ==
    \E i \in 1..Len(u) : u[i].username = username

\* the row of User(username, password_hash, is_admin) inserted into table u
User(u, username, password, is_admin) ==
    [id |-> NextId({u[i].id : i \in 1..Len(u)}), username |-> username,
     password_hash |-> hash_password(password), is_admin |-> is_admin]

\* db.add(user); db.commit() of register_user for request req: the insert
\* is refused by the unique index when the username has a row by now (the
\* IntegrityError is not caught by the handler and reaches
\* sqlalchemy_exception_handler), and succeeds otherwise
register_user_commit(req, username, password, is_admin) ==
    IF users_username_taken(users, username)
    THEN /\ resp' = sqlalchemy_exception_handler("register", req, "UNIQUE", 1, 1, 0)
         /\ users' = users
    ELSE /\ resp' = Reply("register", req, 201, "", NoDetails,
                          [username |-> username], TRUE, 1, 1, 0)
         /\ users' = Append(users, User(users, username, password, is_admin))

\* POST /auth/register, handled without another request in between
register_user(username, password, is_admin) ==
    LET req == [username |-> username]
    IN  /\ IF query_User_first(users, username) # <<>>
           THEN /\ resp' = Reply("register", req, 400, "Username already exists",
                                 NoDetails, NoBody, TRUE, 1, 0, 0)
                /\ users' = users
           ELSE register_user_commit(req, username, password, is_admin)
        /\ UNCHANGED <<cfg, clock, ticks, schools, teachers, students, documents,
                       blob, issued, kin, kout, tin, tok, assoc, flight>>

\* a slot that handles no request
Idle == [op |-> "idle"]

\* POST /auth/register, first step, taken by slot for a new request: the
\* query for an existing user; the request ends here with 400 when there
\* is one, and goes on to the insert otherwise
register_user_begin(slot, username, password, is_admin) ==
    LET req == [slot |-> slot, username |-> username]
    IN  /\ flight[slot] = Idle
        /\ IF query_User_first(users, username) # <<>>
           THEN /\ resp' = Reply("register", req, 400, "Username already exists",
                                 NoDetails, NoBody, TRUE, 1, 0, 0)
                /\ flight' = flight
           ELSE /\ resp' = resp
                /\ flight' = [flight EXCEPT ![slot] =
                                 [op |-> "register", req |-> req, username |-> username,
                                  password |-> password, is_admin |-> is_admin]]
        /\ UNCHANGED <<cfg, clock, ticks, users, schools, teachers, students, documents,
                       blob, issued, kin, kout, tin, tok, assoc>>

\* POST /auth/register, second step: the insert and the commit
register_user_end(slot) ==
    /\ flight[slot].op = "register"
    /\ register_user_commit(flight[slot].req, flight[slot].username,
                            flight[slot].password, flight[slot].is_admin)
    /\ flight' = [flight EXCEPT ![slot] = Idle]
    /\ UNCHANGED <<cfg, clock, ticks, schools, teachers, students, documents,
                   blob, issued, kin, kout, tin, tok, assoc>>

\* the token envelope of login and refresh
TokenResponse(access_token, refresh_token, is_admin) ==
    [access_token |-> access_token, refresh_token |-> refresh_token,
     token_type |-> "bearer", expires_in |-> ACCESS_TOKEN_EXPIRE_MINUTES * 60,
     is_admin |-> is_admin]

\* POST /auth/login
login_for_access_token(username, password) ==
    LET req == [username |-> username, password |-> password]
    IN  IF username = "" \/ password = ""
        THEN /\ resp' = Reply("login", req, 400, "Username and password are required",
                              [field |-> "None"], NoBody, TRUE, 0, 0, 0)
             /\ issued' = issued
        ELSE IF ~authenticate_user_db(users, username, password)
        THEN /\ resp' = Reply("login", req, 401, "Incorrect username or password",
                              NoDetails, NoBody, TRUE, 1, 0, 0)
             /\ issued' = issued
        ELSE LET user == query_User_first(users, username)[1]
                 access_token ==
                     create_access_token([sub |-> username, type |-> "access",
                                          is_admin |-> user.is_admin], <<>>, clock)
                 refresh_token ==
                     create_refresh_token([sub |-> username,
                                           is_admin |-> user.is_admin], <<>>, clock)
             IN  /\ Cardinality(issued \cup {access_token, refresh_token}) <= MaxIssued
                 /\ resp' = Reply("login", req, 200, "", NoDetails,
                                  TokenResponse(access_token, refresh_token, user.is_admin),
                                  TRUE, 2, 0, 0)
                 /\ issued' = issued \cup {access_token, refresh_token}

\* POST /auth/login as a step of the system
Login(username, password) ==
    /\ login_for_access_token(username, password)
    /\ UNCHANGED <<cfg, clock, ticks, users, schools, teachers, students, documents,
                   blob, kin, kout, tin, tok, assoc, flight>>

\* mutant: the type of the token is not looked at
IsRefreshType_Any(data) == TRUE

\* data.get("type") == "refresh"
IsRefreshType(data) == Has(data, "type") /\ data.type = "refresh"

\* mutant: the refreshed tokens are never admin tokens
ClaimIsAdmin_Never(data) == FALSE

\* bool(data.get("is_admin", False))
ClaimIsAdmin(data) == IF Has(data, "is_admin") THEN data.is_admin ELSE FALSE

\* POST /auth/refresh
refresh_access_token(refresh_token) ==
    LET req == [refresh_token |-> refresh_token]
    IN  IF refresh_token = EmptyToken
        THEN /\ resp' = Reply("refresh", req, 400, "Refresh token is required",
                              [field |-> "None"], NoBody, TRUE, 0, 0, 0)
             /\ issued' = issued
        ELSE IF ~JwtDecodes(refresh_token, clock)
        THEN /\ resp' = Reply("refresh", req, 401, "Invalid or expired refresh token",
                              NoDetails, NoBody, TRUE, 0, 0, 0)
             /\ issued' = issued
        ELSE LET data == refresh_token.claims
             IN  IF ~IsRefreshType(data)
                 THEN /\ resp' = Reply("refresh", req, 400, "Invalid token type",
                                       [field |-> "None"], NoBody, TRUE, 0, 0, 0)
                      /\ issued' = issued
                 ELSE IF ~Has(data, "sub") \/ data.sub = ""
                 THEN /\ resp' = Reply("refresh", req, 400, "Invalid token payload",
                                       [field |-> "None"], NoBody, TRUE, 0, 0, 0)
                      /\ issued' = issued
                 ELSE LET username == data.sub
                          is_admin == ClaimIsAdmin(data)
                          access_token ==
                              create_access_token([sub |-> username, type |-> "access",
                                                   is_admin |-> is_admin], <<>>, clock)
                          new_refresh ==
                              create_refresh_token([sub |-> username,
                                                    is_admin |-> is_admin], <<>>, clock)
                      IN  /\ Cardinality(issued \cup {access_token, new_refresh}) <= MaxIssued
                          /\ resp' = Reply("refresh", req, 200, "", NoDetails,
                                           TokenResponse(access_token, new_refresh, is_admin),
                                           TRUE, 0, 0, 0)
                          /\ issued' = issued \cup {access_token, new_refresh}

Refresh(refresh_token) ==
    /\ refresh_access_token(refresh_token)
    /\ UNCHANGED <<cfg, clock, ticks, users, schools, teachers, students, documents,
                   blob, kin, kout, tin, tok, assoc, flight>>

\* the wall clock advances
Tick(d) ==
    /\ ticks < MaxTicks
    /\ clock' = clock + d
    /\ ticks' = ticks + 1
    /\ UNCHANGED <<cfg, users, schools, teachers, students, documents, blob,
                   issued, resp, kin, kout, tin, tok, assoc, flight>>

-----------------------------------------------------------------------------
(* Protected router (main.py): routes of `router` depend on                *)
(* get_current_user; routes of `docs_router` are included as they are      *)
(* declared, with the dependencies their own router was given.             *)

RouterDependencies(r) ==
    IF r = "router" THEN {"get_current_user"} ELSE {}

\* the result of a router's dependencies for a request carrying bearer
RouterGuard(r, bearer) ==
    IF "get_current_user" \in RouterDependencies(r)
    THEN get_current_user(bearer, clock)
    ELSE [ok |-> TRUE]

\* POST /schools
create_school(bearer, name) ==
    LET req  == [bearer |-> bearer, name |-> name]
        auth == RouterGuard("router", bearer)
    IN  /\ IF ~auth.ok
           THEN /\ resp' = Denied("create_school", req, auth)
                /\ schools' = schools
           ELSE IF name = <<>> \/ Strip(name) = <<>>
           THEN /\ resp' = Reply("create_school", req, 400, "School name is required",
                                 [field |-> "name"], NoBody, TRUE, 0, 0, 0)
                /\ schools' = schools
           ELSE IF \E sc \in schools : sc.name = name
           THEN /\ resp' = Reply("create_school", req, 409,
                                 "School with this name already exists",
                                 [resource |-> "school"], NoBody, TRUE, 1, 0, 0)
                /\ schools' = schools
           ELSE IF \E sc \in schools : sc.name = Strip(name)
           THEN \* the unique index on schools.name refuses the insert
                /\ resp' = Reply("create_school", req, 500, "Failed to create school",
                                 [operation |-> "create_school"], NoBody, TRUE, 1, 1, 0)
                /\ schools' = schools
           ELSE /\ Cardinality(schools) < MaxSchools
                /\ LET id == NextId({sc.id : sc \in schools})
                   IN  /\ resp' = Reply("create_school", req, 201, "", NoDetails,
                                        [id |-> id, name |-> Strip(name)], TRUE, 1, 1, 0)
                       /\ schools' = schools \cup {[id |-> id, name |-> Strip(name)]}
        /\ UNCHANGED <<cfg, clock, ticks, users, teachers, students, documents,
                       blob, issued, kin, kout, tin, tok, assoc, flight>>

\* POST /teachers
create_teacher(bearer, school_id, salary) ==
    LET req  == [bearer |-> bearer, school_id |-> school_id]
        auth == RouterGuard("router", bearer)
    IN  /\ IF ~auth.ok
           THEN /\ resp' = Denied("create_teacher", req, auth)
                /\ teachers' = teachers
           ELSE IF ~\E sc \in schools : sc.id = school_id
           THEN /\ resp' = Reply("create_teacher", req, 400, "Associated school not found",
                                 NoDetails, NoBody, TRUE, 1, 0, 0)
                /\ teachers' = teachers
           ELSE /\ Cardinality(teachers) < MaxTeachers
                /\ LET id == NextId({t.id : t \in teachers})
                   IN  /\ resp' = Reply("create_teacher", req, 201, "", NoDetails,
                                        [id |-> id, school_id |-> school_id], TRUE, 1, 1, 0)
                       /\ teachers' = teachers \cup
                              {[id |-> id, school_id |-> school_id, salary |-> salary]}
        /\ UNCHANGED <<cfg, clock, ticks, users, schools, students, documents,
                       blob, issued, kin, kout, tin, tok, assoc, flight>>

\* GET /teachers/{teacher_id}.  The handler has no try block: an exception
\* raised while it runs reaches the application's exception handlers.
\* fault is <<>> when nothing is raised, <<e>> when an exception with text e
\* that is neither an HTTPException, an APIException nor of a kind with a
\* handler of its own is raised by the lookup.
get_teacher(bearer, teacher_id, fault) ==
    LET req  == [bearer |-> bearer, teacher_id |-> teacher_id, fault |-> fault]
        auth == RouterGuard("router", bearer)
        op   == "get_teacher"
    IN  /\ resp' =
             IF ~auth.ok THEN Denied(op, req, auth)
             ELSE IF fault # <<>>
             THEN general_exception_handler(op, req, fault[1], 0, 0, 0)
             ELSE IF ~\E t \in teachers : t.id = teacher_id
             THEN Reply(op, req, 404, "Teacher not found",
                        NoDetails, NoBody, TRUE, 1, 0, 0)
             ELSE LET teacher == CHOOSE t \in teachers : t.id = teacher_id
                  IN  Reply(op, req, 200, "", NoDetails,
                            [id |-> teacher.id, school_id |-> teacher.school_id],
                            TRUE, 1, 0, 0)
        /\ UNCHANGED <<cfg, clock, ticks, users, schools, teachers, students, documents,
                       blob, issued, kin, kout, tin, tok, assoc, flight>>

\* GET /admin/teachers/{teacher_id}/salary
get_teacher_salary(bearer, teacher_id) ==
    LET req   == [bearer |-> bearer, teacher_id |-> teacher_id]
        auth  == RouterGuard("router", bearer)
        admin == IF auth.ok THEN get_current_admin_user(auth) ELSE auth
    IN  /\ resp' =
             IF ~auth.ok THEN Denied("get_teacher_salary", req, auth)
             ELSE IF ~admin.ok THEN Denied("get_teacher_salary", req, admin)
             ELSE IF ~\E t \in teachers : t.id = teacher_id
             THEN Reply("get_teacher_salary", req, 404, "Teacher not found",
                        NoDetails, NoBody, TRUE, 1, 0, 0)
             ELSE LET teacher == CHOOSE t \in teachers : t.id = teacher_id
                  IN  Reply("get_teacher_salary", req, 200, "", NoDetails,
                            [teacher_id |-> teacher.id, salary |-> teacher.salary],
                            TRUE, 1, 0, 0)
        /\ UNCHANGED <<cfg, clock, ticks, users, schools, teachers, students, documents,
                       blob, issued, kin, kout, tin, tok, assoc, flight>>

\* POST /students
create_student(bearer) ==
    LET req  == [bearer |-> bearer]
        auth == RouterGuard("router", bearer)
    IN  /\ IF ~auth.ok
           THEN /\ resp' = Denied("create_student", req, auth)
                /\ students' = students
           ELSE /\ Cardinality(students) < MaxStudents
                /\ LET id == NextId(students)
                   IN  /\ resp' = Reply("create_student", req, 201, "", NoDetails,
                                        [id |-> id], TRUE, 0, 1, 0)
                       /\ students' = students \cup {id}
        /\ UNCHANGED <<cfg, clock, ticks, users, schools, teachers, documents,
                       blob, issued, kin, kout, tin, tok, assoc, flight>>

\* DELETE /students/{student_id}.  The engine (database.py) never turns
\* SQLite's foreign keys on and Student.documents has passive_deletes, so
\* the delete removes the students row and, through the ORM's handling of
\* the secondary table of Student.teachers, the student's rows of
\* student_teacher; the student_documents rows are left alone.
delete_student(bearer, student_id) ==
    LET req  == [bearer |-> bearer, student_id |-> student_id]
        auth == RouterGuard("router", bearer)
        Other(row) == row.student_id # student_id
    IN  /\ IF ~auth.ok
           THEN /\ resp' = Denied("delete_student", req, auth)
                /\ UNCHANGED <<students, assoc>>
           ELSE IF student_id \notin students
           THEN /\ resp' = Reply("delete_student", req, 404, "Student not found",
                                 NoDetails, NoBody, TRUE, 1, 0, 0)
                /\ UNCHANGED <<students, assoc>>
           ELSE /\ resp' = Reply("delete_student", req, 204, "", NoDetails, NoBody,
                                 TRUE, 1, 1, 0)
                /\ students' = students \ {student_id}
                /\ assoc' = SelectSeq(assoc, Other)
        /\ UNCHANGED <<cfg, clock, ticks, users, schools, teachers, documents,
                       blob, issued, kin, kout, tin, tok, flight>>

\* DELETE /teachers/{teacher_id}: removes the teachers row and, through the
\* secondary table of Teacher.students, the teacher's rows of student_teacher
delete_teacher(bearer, teacher_id) ==
    LET req  == [bearer |-> bearer, teacher_id |-> teacher_id]
        auth == RouterGuard("router", bearer)
        Other(row) == row.teacher_id # teacher_id
    IN  /\ IF ~auth.ok
           THEN /\ resp' = Denied("delete_teacher", req, auth)
                /\ UNCHANGED <<teachers, assoc>>
           ELSE IF ~\E t \in teachers : t.id = teacher_id
           THEN /\ resp' = Reply("delete_teacher", req, 404, "Teacher not found",
                                 NoDetails, NoBody, TRUE, 1, 0, 0)
                /\ UNCHANGED <<teachers, assoc>>
           ELSE /\ resp' = Reply("delete_teacher", req, 204, "", NoDetails, NoBody,
                                 TRUE, 1, 1, 0)
                /\ teachers' = {t \in teachers : t.id # teacher_id}
                /\ assoc' = SelectSeq(assoc, Other)
        /\ UNCHANGED <<cfg, clock, ticks, users, schools, students, documents,
                       blob, issued, kin, kout, tin, tok, flight>>

\* mutant: the teacher is never found among the student's teachers
teacher_in_student_teachers_Never(rows, student_id, teacher_id) == FALSE

\* teacher in student.teachers: the pair is a row of student_teacher
teacher_in_student_teachers(rows, student_id, teacher_id) ==
    \E i \in 1..Len(rows) :
        rows[i] = [student_id |-> student_id, teacher_id |-> teacher_id]

\* POST /students/{student_id}/teachers/{teacher_id}.  The insert of a pair
\* that is already a row is refused by the primary key of student_teacher
\* (student_id, teacher_id); the handler does not catch that error, which
\* reaches sqlalchemy_exception_handler.
assign_teacher_to_student(bearer, student_id, teacher_id) ==
    LET req  == [bearer |-> bearer, student_id |-> student_id,
                 teacher_id |-> teacher_id]
        auth == RouterGuard("router", bearer)
        op   == "assign_teacher_to_student"
        pair == [student_id |-> student_id, teacher_id |-> teacher_id]
    IN  /\ IF ~auth.ok
           THEN /\ resp' = Denied(op, req, auth)
                /\ assoc' = assoc
           ELSE IF student_id \notin students
           THEN /\ resp' = Reply(op, req, 404, "Student not found",
                                 NoDetails, NoBody, TRUE, 1, 0, 0)
                /\ assoc' = assoc
           ELSE IF ~\E t \in teachers : t.id = teacher_id
           THEN /\ resp' = Reply(op, req, 404, "Teacher not found",
                                 NoDetails, NoBody, TRUE, 2, 0, 0)
                /\ assoc' = assoc
           ELSE IF teacher_in_student_teachers(assoc, student_id, teacher_id)
           THEN /\ resp' = Reply(op, req, 204, "", NoDetails, NoBody, TRUE, 3, 0, 0)
                /\ assoc' = assoc
           ELSE IF \E i \in 1..Len(assoc) : assoc[i] = pair
           THEN /\ resp' = sqlalchemy_exception_handler(op, req, "UNIQUE", 3, 1, 0)
                /\ assoc' = assoc
           ELSE /\ resp' = Reply(op, req, 204, "", NoDetails, NoBody, TRUE, 3, 1, 0)
                /\ assoc' = Append(assoc, pair)
        /\ UNCHANGED <<cfg, clock, ticks, users, schools, teachers, students, documents,
                       blob, issued, kin, kout, tin, tok, flight>>

-----------------------------------------------------------------------------
(* Student documents (routers/student_documents.py, crud.py)               *)

\* crud.create_student_document: the row inserted at time now
create_student_document(docs, document_data, now) ==
    Append(docs, [id |-> NextId({docs[i].id : i \in 1..Len(docs)}),
                  student_id |-> document_data.student_id,
                  document_name |-> document_data.document_name,
                  document_type |-> document_data.document_type,
                  s3_url |-> document_data.s3_url,
                  uploaded_at |-> now])

\* the results crud.get_student_documents_by_student can return: the rows
\* of the student in an order that is descending in uploaded_at (rows with
\* equal uploaded_at come in an order the query does not determine)
get_student_documents_by_student(docs, student_id) ==
    LET idx == {i \in 1..Len(docs) : docs[i].student_id = student_id}
        n   == Cardinality(idx)
    IN  { [k \in 1..n |-> docs[f[k]]] :
            f \in { g \in [1..n -> idx] :
                      /\ \A a, b \in 1..n : a # b => g[a] # g[b]
                      /\ \A a, b \in 1..n :
                            a < b => docs[g[a]].uploaded_at >= docs[g[b]].uploaded_at } }

\* mutant: the object is not kept in the bucket
upload_file_to_s3_NotKept(store, content, bucket_name, key) ==
    [store |-> store, url |-> get_file_url(cfg, bucket_name, key)]

\* mutant: an object that is already stored at the key is kept
upload_file_to_s3_KeepFirst(store, content, bucket_name, key) ==
    [store |-> store @@ (key :> content), url |-> get_file_url(cfg, bucket_name, key)]

\* upload_file_to_s3(content, bucket, key): put_object, then the object URL
upload_file_to_s3(store, content, bucket_name, key) ==
    [store |-> (key :> content) @@ store, url |-> get_file_url(cfg, bucket_name, key)]

\* get_presigned_download_url(bucket, key, filename=...)
get_presigned_download_url(bucket_name, key, filename) ==
    [bucket |-> bucket_name, key |-> key, expires_in |-> 900,
     disposition |-> <<"inline">> \o filename]

\* mutant: the student lookup finds a row for every id
db_get_Student_Always(ss, student_id) == TRUE

\* db.get(Student, student_id) finds a row in the students table ss
db_get_Student(ss, student_id) == student_id \in ss

\* mutant: the bucket setting is never missed
s3_bucket_unset_Never(c) == FALSE

\* not aws_settings.s3_bucket
s3_bucket_unset(c) == c.s3_bucket = <<>>

\* max_bytes: the largest file upload_student_document accepts
max_bytes == 5 * 1024 * 1024

\* mutant: a file of exactly max_bytes is refused
FileTooLarge_AtLeast(file) == file.size >= max_bytes

\* content is not None and len(content) > max_bytes
FileTooLarge(file) == file.size > max_bytes

\* POST /students/{student_id}/documents.  s3ok and dbok are the outcomes of
\* the blob store's put and of the metadata commit.
upload_student_document(bearer, student_id, file, document_name, document_type, s3ok, dbok) ==
    LET req  == [bearer |-> bearer, student_id |-> student_id, file |-> file,
                 document_name |-> document_name, document_type |-> document_type,
                 storage_ok |-> s3ok, commit_ok |-> dbok]
        auth == RouterGuard("docs_router", bearer)
        op   == "upload"
        Fail(status, error, details, reads, writes, calls) ==
            /\ resp' = Reply(op, req, status, error, details, NoBody, TRUE,
                             reads, writes, calls)
            /\ UNCHANGED <<documents, blob>>
    IN  /\ IF ~auth.ok
           THEN /\ resp' = Denied(op, req, auth)
                /\ UNCHANGED <<documents, blob>>
           ELSE IF student_id <= 0
           THEN Fail(400, "Student ID must be a positive integer",
                     [field |-> "student_id"], 0, 0, 0)
           ELSE IF document_name = <<>> \/ Strip(document_name) = <<>>
           THEN Fail(400, "Document name is required", [field |-> "document_name"], 0, 0, 0)
           ELSE IF document_type = <<>> \/ Strip(document_type) = <<>>
           THEN Fail(400, "Document type is required", [field |-> "document_type"], 0, 0, 0)
           ELSE IF file.filename = ""
           THEN Fail(400, "File is required", [field |-> "file"], 0, 0, 0)
           ELSE IF s3_bucket_unset(cfg)
           THEN Fail(500, "S3 bucket not configured (AWS_S3_BUCKET)",
                     [operation |-> "upload"], 0, 0, 0)
           ELSE IF ~db_get_Student(students, student_id)
           THEN Fail(404, "Student not found", [resource |-> "Student"], 1, 0, 0)
           ELSE IF file.read_error # ""
           THEN \* an exception of no listed kind: wrapped by the outer except
                Fail(500, "Document upload failed: " \o file.read_error,
                     NoDetails, 1, 0, 0)
           ELSE IF FileTooLarge(file)
           THEN Fail(413, "File too large", [max_size |-> max_bytes], 1, 0, 0)
           ELSE LET key == DocumentKey(student_id, document_name)
                    up  == upload_file_to_s3(blob, file.content, cfg.s3_bucket, key)
                IN  IF ~s3ok
                    THEN Fail(500, "Failed to upload file to S3",
                              [operation |-> "upload"], 1, 0, 1)
                    ELSE IF ~dbok
                    THEN /\ resp' = Reply(op, req, 500, "Failed to save document metadata",
                                          [operation |-> "create_document"], NoBody,
                                          TRUE, 1, 1, 1)
                         /\ blob' = up.store
                         /\ documents' = documents
                    ELSE /\ Len(documents) < MaxDocs
                         /\ LET created == create_student_document(documents,
                                               [student_id |-> student_id,
                                                document_name |-> Strip(document_name),
                                                document_type |-> Strip(document_type),
                                                s3_url |-> up.url], clock)
                            IN  /\ resp' = Reply(op, req, 201, "", NoDetails,
                                                 created[Len(created)], TRUE, 1, 1, 1)
                                /\ documents' = created
                         /\ blob' = up.store
        /\ UNCHANGED <<cfg, clock, ticks, users, schools, teachers, students,
                       issued, kin, kout, tin, tok, assoc, flight>>

\* POST /students/{student_id}/documents, first step, taken by slot for a
\* new request: the checks of the fields, of the bucket setting, of the
\* student and of the size.  The request ends here with the error of the
\* first check that fails, and goes on to the upload to storage otherwise.
upload_student_document_begin(slot, bearer, student_id, file, document_name, document_type) ==
    LET req  == [slot |-> slot, bearer |-> bearer, student_id |-> student_id,
                 file |-> file, document_name |-> document_name,
                 document_type |-> document_type]
        auth == RouterGuard("docs_router", bearer)
        op   == "upload"
        Fail(status, error, details, reads) ==
            /\ resp' = Reply(op, req, status, error, details, NoBody, TRUE, reads, 0, 0)
            /\ flight' = flight
    IN  /\ flight[slot] = Idle
        /\ IF ~auth.ok
           THEN /\ resp' = Denied(op, req, auth)
                /\ flight' = flight
           ELSE IF student_id <= 0
           THEN Fail(400, "Student ID must be a positive integer",
                     [field |-> "student_id"], 0)
           ELSE IF document_name = <<>> \/ Strip(document_name) = <<>>
           THEN Fail(400, "Document name is required", [field |-> "document_name"], 0)
           ELSE IF document_type = <<>> \/ Strip(document_type) = <<>>
           THEN Fail(400, "Document type is required", [field |-> "document_type"], 0)
           ELSE IF file.filename = ""
           THEN Fail(400, "File is required", [field |-> "file"], 0)
           ELSE IF s3_bucket_unset(cfg)
           THEN Fail(500, "S3 bucket not configured (AWS_S3_BUCKET)",
                     [operation |-> "upload"], 0)
           ELSE IF ~db_get_Student(students, student_id)
           THEN Fail(404, "Student not found", [resource |-> "Student"], 1)
           ELSE IF file.read_error # ""
           THEN Fail(500, "Document upload failed: " \o file.read_error, NoDetails, 1)
           ELSE IF FileTooLarge(file)
           THEN Fail(413, "File too large", [max_size |-> max_bytes], 1)
           ELSE /\ resp' = resp
                /\ flight' = [flight EXCEPT ![slot] =
                                 [op |-> "upload", pc |-> "put", req |-> req,
                                  key |-> DocumentKey(student_id, document_name)]]
        /\ UNCHANGED <<cfg, clock, ticks, users, schools, teachers, students, documents,
                       blob, issued, kin, kout, tin, tok, assoc>>

\* second step: upload_file_to_s3 writes the object at the key
upload_student_document_put(slot) ==
    /\ flight[slot].op = "upload"
    /\ flight[slot].pc = "put"
    /\ LET up == upload_file_to_s3(blob, flight[slot].req.file.content,
                                   cfg.s3_bucket, flight[slot].key)
       IN  /\ blob' = up.store
           /\ flight' = [flight EXCEPT ![slot] =
                            [op |-> "upload", pc |-> "commit", req |-> flight[slot].req,
                             key |-> flight[slot].key, url |-> up.url]]
    /\ UNCHANGED <<cfg, clock, ticks, users, schools, teachers, students, documents,
                   issued, resp, kin, kout, tin, tok, assoc>>

\* third step: crud.create_student_document inserts and commits the row.
\* No foreign key is enforced, so the insert does not look at the students
\* table.
upload_student_document_commit(slot) ==
    /\ flight[slot].op = "upload"
    /\ flight[slot].pc = "commit"
    /\ Len(documents) < MaxDocs
    /\ LET req     == flight[slot].req
           created == create_student_document(documents,
                          [student_id |-> req.student_id,
                           document_name |-> Strip(req.document_name),
                           document_type |-> Strip(req.document_type),
                           s3_url |-> flight[slot].url], clock)
       IN  /\ resp' = Reply("upload", req, 201, "", NoDetails,
                            created[Len(created)], TRUE, 1, 1, 1)
           /\ documents' = created
    /\ flight' = [flight EXCEPT ![slot] = Idle]
    /\ UNCHANGED <<cfg, clock, ticks, users, schools, teachers, students,
                   blob, issued, kin, kout, tin, tok, assoc>>

\* mutant: one failed presign leaves every entry without a download URL
download_url_for_AllOrNothing(c, d, failing) ==
    IF c.s3_bucket # <<>> /\ failing = {}
    THEN <<get_presigned_download_url(c.s3_bucket,
               extract_key_from_url(d.s3_url, c.s3_bucket), d.document_name)>>
    ELSE <<>>

\* the download URL of row d in the list (<<>> is null): the presigned URL
\* of the key recovered from d.s3_url, null where no bucket is configured
\* or the presign of d raised (failing holds the ids of those rows)
download_url_for(c, d, failing) ==
    IF c.s3_bucket # <<>> /\ d.id \notin failing
    THEN <<get_presigned_download_url(c.s3_bucket,
               extract_key_from_url(d.s3_url, c.s3_bucket), d.document_name)>>
    ELSE <<>>

\* GET /students/{student_id}/documents.  docs is the result of the query,
\* failing the set of document ids whose presigned URL cannot be generated.
list_student_documents(bearer, student_id, docs, failing) ==
    LET req  == [bearer |-> bearer, student_id |-> student_id,
                 presign_failed |-> failing]
        auth == RouterGuard("docs_router", bearer)
        op   == "list"
        Entry(d) ==
            [id |-> d.id, student_id |-> d.student_id,
             document_name |-> d.document_name, document_type |-> d.document_type,
             s3_url |-> d.s3_url, uploaded_at |-> d.uploaded_at,
             download_url |-> download_url_for(cfg, d, failing)]
    IN  /\ resp' =
             IF ~auth.ok THEN Denied(op, req, auth)
             ELSE IF student_id <= 0
             THEN Reply(op, req, 400, "Student ID must be a positive integer",
                        [field |-> "student_id"], NoBody, TRUE, 0, 0, 0)
             ELSE IF ~db_get_Student(students, student_id)
             THEN NotFoundError(op, req, "Student", 1, 0)
             ELSE Reply(op, req, 200, "", NoDetails,
                        [results |-> [k \in 1..Len(docs) |-> Entry(docs[k])]],
                        TRUE, 2, 0, 0)
        /\ UNCHANGED <<cfg, clock, ticks, users, schools, teachers, students, documents,
                       blob, issued, kin, kout, tin, tok, assoc, flight>>

\* GET /students/{student_id}/download-document.  docs is the result of the
\* query, s3ok the outcome of the blob store's get for an existing key.
download_latest_document_for_student(bearer, student_id, docs, s3ok) ==
    LET req  == [bearer |-> bearer, student_id |-> student_id]
        auth == RouterGuard("docs_router", bearer)
        op   == "download"
    IN  /\ resp' =
             IF ~auth.ok THEN Denied(op, req, auth)
             ELSE IF student_id <= 0
             THEN Reply(op, req, 400, "Student ID must be a positive integer",
                        [field |-> "student_id"], NoBody, TRUE, 0, 0, 0)
             ELSE IF ~db_get_Student(students, student_id)
             THEN NotFoundError(op, req, "Student", 1, 0)
             ELSE IF s3_bucket_unset(cfg)
             THEN Reply(op, req, 500, "S3 bucket not configured",
                        [operation |-> "download"], NoBody, TRUE, 1, 0, 0)
             ELSE IF docs = <<>>
             THEN NotFoundError(op, req, "Document", 2, 0)
             ELSE LET doc == docs[1]
                      key == extract_key_from_url(doc.s3_url, cfg.s3_bucket)
                  IN  IF key \notin DOMAIN blob
                      THEN NotFoundError(op, req, "File", 2, 1)
                      ELSE IF ~s3ok
                      THEN Reply(op, req, 500, "Failed to fetch object from S3",
                                 [operation |-> "download"], NoBody, TRUE, 2, 0, 1)
                      ELSE Reply(op, req, 200, "", NoDetails,
                                 [content |-> blob[key],
                                  content_disposition |->
                                      <<"attachment">> \o doc.document_name],
                                 TRUE, 2, 0, 1)
        /\ UNCHANGED <<cfg, clock, ticks, users, schools, teachers, students, documents,
                       blob, issued, kin, kout, tin, tok, assoc, flight>>

-----------------------------------------------------------------------------
(* Specification of the authentication and admin surface                   *)

NoConfig == [s3_endpoint_url |-> <<>>, aws_region_name |-> <<>>, s3_bucket |-> <<>>]
NoCall == [none |-> TRUE]

Init ==
    /\ cfg = NoConfig
    /\ clock = 0
    /\ ticks = 0
    /\ users = <<>>
    /\ schools = {}
    /\ teachers = {}
    /\ students = {}
    /\ documents = <<>>
    /\ blob = <<>>
    /\ issued = {}
    /\ resp = InitialResp
    /\ kin = NoCall
    /\ kout = NoCall
    /\ tin = NoCall
    /\ tok = NoToken
    /\ assoc = <<>>
    /\ flight = <<>>

Next ==
    \/ \E u \in Usernames, p \in RegisterPasswords, a \in BOOLEAN : register_user(u, p, a)
    \/ \E u \in Usernames \cup UnknownUsernames \cup {""}, p \in Passwords \cup {""} :
           Login(u, p)
    \/ \E t \in Presentable \ {NoToken} : Refresh(t)
    \/ \E d \in TickSteps : Tick(d)
    \/ \E b \in Presentable \ {EmptyToken}, n \in SchoolNames : create_school(b, n)
    \/ \E b \in Presentable \ {EmptyToken}, sc \in 1..MaxSchools, sal \in Salaries :
           create_teacher(b, sc, sal)
    \/ \E b \in Presentable \ {EmptyToken}, t \in 1..(MaxTeachers + 1) :
           get_teacher_salary(b, t)

Spec == Init /\ [][Next]_vars

-----------------------------------------------------------------------------
(* Specification of the student-document surface.  It starts where the     *)
(* storage settings have been read from the environment and alice has      *)
(* registered and logged in at time 0.                                     *)

HttpH == <<"h", "t", "t", "p", ":", "/", "/", "h">>
BucketDocs == <<"d", "o", "c", "s">>
BucketStudents == <<"s", "t", "u", "d", "e", "n", "t", "s">>

Configs ==
    { [s3_endpoint_url |-> HttpH, aws_region_name |-> <<>>, s3_bucket |-> BucketDocs],
      [s3_endpoint_url |-> <<>>, aws_region_name |-> <<>>, s3_bucket |-> BucketDocs],
      NoConfig }

DocNames == {<<"a">>, <<" ", "a">>, <<" ">>}
DocTypes == {<<"t">>, <<" ">>}
\* read_error is the text of the exception that file.file.read() raises, ""
\* when the file reads without error
Files ==
    { [filename |-> "f.pdf", size |-> 10, content |-> "p1", read_error |-> ""],
      [filename |-> "f.pdf", size |-> max_bytes, content |-> "p2", read_error |-> ""],
      [filename |-> "f.pdf", size |-> max_bytes + 1, content |-> "p3", read_error |-> ""],
      [filename |-> "", size |-> 10, content |-> "p1", read_error |-> ""] }

AliceRow == [id |-> 1, username |-> "alice",
             password_hash |-> hash_password("pw1"), is_admin |-> FALSE]
AliceAccess ==
    create_access_token([sub |-> "alice", type |-> "access", is_admin |-> FALSE], <<>>, 0)
AliceRefresh ==
    create_refresh_token([sub |-> "alice", is_admin |-> FALSE], <<>>, 0)

InitDocs ==
    /\ cfg \in Configs
    /\ clock = 0
    /\ ticks = 0
    /\ users = <<AliceRow>>
    /\ schools = {}
    /\ teachers = {}
    /\ students = {}
    /\ documents = <<>>
    /\ blob = <<>>
    /\ issued = {AliceAccess, AliceRefresh}
    /\ resp = InitialResp
    /\ kin = NoCall
    /\ kout = NoCall
    /\ tin = NoCall
    /\ tok = NoToken
    /\ assoc = <<>>
    /\ flight = <<>>

\* the student ids the requests name: 0 (not a positive id) and 1 (the id of
\* the first student, who exists or not when the request arrives)
StudentIds == {0, 1}

\* the number of fields of an upload request that are invalid in themselves
Faults(r) ==
    (IF r.student_id <= 0 THEN 1 ELSE 0)
    + (IF Strip(r.document_name) = <<>> THEN 1 ELSE 0)
    + (IF Strip(r.document_type) = <<>> THEN 1 ELSE 0)
    + (IF r.file.filename = "" THEN 1 ELSE 0)
    + (IF r.file.size > max_bytes THEN 1 ELSE 0)

\* the upload requests: every combination of the inputs above with at most
\* one field invalid in itself
UploadRequests ==
    { r \in [student_id : StudentIds, file : Files,
             document_name : DocNames, document_type : DocTypes] : Faults(r) <= 1 }

IoOutcomes == {<<TRUE, TRUE>>, <<FALSE, TRUE>>, <<TRUE, FALSE>>}

\* the outcomes of storage and commit that request r can meet: they fail
\* only for a request that gets as far as the upload to storage
IoOutcomesOf(r) ==
    IF /\ Faults(r) = 0
       /\ ~s3_bucket_unset(cfg)
       /\ db_get_Student(students, r.student_id)
    THEN IoOutcomes
    ELSE {<<TRUE, TRUE>>}

\* the requests of the document surface carrying one of the bearers bs
DocRequests(bs, reqs) ==
    \/ \E b \in bs : create_student(b)
    \/ \E b \in bs, sid \in StudentIds : delete_student(b, sid)
    \/ \E b \in bs, r \in reqs : \E io \in IoOutcomesOf(r) :
           upload_student_document(b, r.student_id, r.file, r.document_name,
                                   r.document_type, io[1], io[2])
    \/ \E b \in bs, sid \in StudentIds :
           \E docs \in get_student_documents_by_student(documents, sid) :
               \E failing \in SUBSET {docs[k].id : k \in 1..Len(docs)} :
                   list_student_documents(b, sid, docs, failing)
    \/ \E b \in bs, sid \in StudentIds, s3ok \in BOOLEAN :
           \E docs \in get_student_documents_by_student(documents, sid) :
               download_latest_document_for_student(b, sid, docs, s3ok)

\* every request carries alice's access token
NextDocs ==
    \/ DocRequests({AliceAccess}, UploadRequests)
    \/ (ticks < MaxDocTicks /\ Tick(1))

SpecDocs == InitDocs /\ [][NextDocs]_vars

\* the document surface reached with every kind of bearer: none, a string
\* that is no token, alice's access token
DocBearers == {NoToken, GarbageToken, AliceAccess}

AuthUploadRequests ==
    { r \in UploadRequests :
        Faults(r) = 0 /\ r.file.content = "p1" /\ r.document_name = <<"a">> }

NextDocsAuth ==
    \/ DocRequests(DocBearers, AuthUploadRequests)
    \/ (ticks < MaxDocTicks /\ Tick(1))

SpecDocsAuth == InitDocs /\ [][NextDocsAuth]_vars

-----------------------------------------------------------------------------
(* Specification of repeated uploads for one student: student 1 exists, a  *)
(* custom endpoint and a bucket are configured, every upload succeeds, and *)
(* the documents are listed and the latest one is downloaded in between.   *)

LatestConfig ==
    [s3_endpoint_url |-> HttpH, aws_region_name |-> <<>>, s3_bucket |-> BucketDocs]
LatestNames == {<<"a">>, <<" ", "a">>, <<"b">>, <<"a", "?", "b">>}
LatestFiles == {f \in Files : f.filename # "" /\ ~FileTooLarge(f)}

InitLatest ==
    /\ cfg = LatestConfig
    /\ clock = 0
    /\ ticks = 0
    /\ users = <<AliceRow>>
    /\ schools = {}
    /\ teachers = {}
    /\ students = {1}
    /\ documents = <<>>
    /\ blob = <<>>
    /\ issued = {AliceAccess, AliceRefresh}
    /\ resp = InitialResp
    /\ kin = NoCall
    /\ kout = NoCall
    /\ tin = NoCall
    /\ tok = NoToken
    /\ assoc = <<>>
    /\ flight = <<>>

NextLatest ==
    \/ \E f \in LatestFiles, n \in LatestNames :
           upload_student_document(AliceAccess, 1, f, n, <<"t">>, TRUE, TRUE)
    \/ \E docs \in get_student_documents_by_student(documents, 1) :
           list_student_documents(AliceAccess, 1, docs, {})
    \/ \E docs \in get_student_documents_by_student(documents, 1) :
           download_latest_document_for_student(AliceAccess, 1, docs, TRUE)
    \/ (ticks < MaxDocTicks /\ Tick(1))

SpecLatest == InitLatest /\ [][NextLatest]_vars

-----------------------------------------------------------------------------
(* Specification of the student-teacher relationship: alice has logged in  *)
(* and two schools exist; students and teachers are created and deleted   *)
(* and teachers are assigned to students.                                  *)

SchoolA == [id |-> 1, name |-> <<"A">>]
SchoolB == [id |-> 2, name |-> <<"B">>]
RelBearers == {AliceAccess, NoToken}
\* the ids the requests name: those of rows that can exist and one more
RelStudentIds == 1..(MaxStudents + 1)
RelTeacherIds == 1..(MaxTeachers + 1)

InitRel ==
    /\ cfg = NoConfig
    /\ clock = 0
    /\ ticks = 0
    /\ users = <<AliceRow>>
    /\ schools = {SchoolA, SchoolB}
    /\ teachers = {}
    /\ students = {}
    /\ documents = <<>>
    /\ blob = <<>>
    /\ issued = {AliceAccess, AliceRefresh}
    /\ resp = InitialResp
    /\ kin = NoCall
    /\ kout = NoCall
    /\ tin = NoCall
    /\ tok = NoToken
    /\ assoc = <<>>
    /\ flight = <<>>

NextRel ==
    \/ \E b \in RelBearers : create_student(b)
    \/ \E b \in RelBearers, sid \in RelStudentIds : delete_student(b, sid)
    \/ \E b \in RelBearers, sc \in {SchoolA, SchoolB}, sal \in Salaries :
           create_teacher(b, sc.id, sal)
    \/ \E b \in RelBearers, tid \in RelTeacherIds : delete_teacher(b, tid)
    \/ \E b \in RelBearers, sid \in RelStudentIds, tid \in RelTeacherIds :
           assign_teacher_to_student(b, sid, tid)

SpecRel == InitRel /\ [][NextRel]_vars

-----------------------------------------------------------------------------
(* Specification of the storage-key functions: the settings and the        *)
(* arguments are drawn at the start, KeyRoundTrip builds the key, the      *)
(* object URL of the key and the key extracted from that URL.              *)

KeyConfigs ==
    { [s3_endpoint_url |-> HttpH, aws_region_name |-> <<>>, s3_bucket |-> <<>>],
      [s3_endpoint_url |-> HttpH \o <<"/">>, aws_region_name |-> <<>>, s3_bucket |-> <<>>],
      [s3_endpoint_url |-> <<>>, aws_region_name |-> <<>>, s3_bucket |-> <<>>],
      [s3_endpoint_url |-> <<>>, aws_region_name |-> <<"e", "u", "-", "w", "e", "s", "t", "-", "1">>,
       s3_bucket |-> <<>>] }

KeyBuckets == {BucketDocs, BucketStudents}
KeyStudentIds == {1, 7, 12}
KeyNames ==
    { <<"a">>, <<" ", "a", " ">>, <<"a", ".", "p", "d", "f">>, <<"a", " ", "b">>,
      <<"a", "/", "b">>, <<"a", "?", "b">>, <<"a", "#", "b">>, <<"a", ";", "b">>,
      <<"a", "\t", "b">> }

InitKey ==
    /\ cfg \in KeyConfigs
    /\ clock = 0
    /\ ticks = 0
    /\ users = <<>>
    /\ schools = {}
    /\ teachers = {}
    /\ students = {}
    /\ documents = <<>>
    /\ blob = <<>>
    /\ issued = {}
    /\ resp = InitialResp
    /\ kin \in [student_id : KeyStudentIds, document_name : KeyNames, bucket : KeyBuckets]
    /\ kout = NoCall
    /\ tin = NoCall
    /\ tok = NoToken
    /\ assoc = <<>>
    /\ flight = <<>>

KeyRoundTrip ==
    /\ kout = NoCall
    /\ LET key == DocumentKey(kin.student_id, kin.document_name)
           url == get_file_url(cfg, kin.bucket, key)
       IN  kout' = [key |-> key, url |-> url,
                    extracted |-> extract_key_from_url(url, kin.bucket)]
    /\ UNCHANGED <<cfg, clock, ticks, users, schools, teachers, students, documents,
                   blob, issued, resp, kin, tin, tok, assoc, flight>>

NextKey == KeyRoundTrip

SpecKey == InitKey /\ [][NextKey]_vars

-----------------------------------------------------------------------------
(* Specification of the token functions called directly: a token is        *)
(* created with a chosen payload and lifetime, the clock advances, and the *)
(* token is verified by get_current_user.                                  *)

TokenData ==
    { [sub |-> "alice", type |-> "access", is_admin |-> FALSE],
      [sub |-> "alice", is_admin |-> TRUE],
      [sub |-> "alice", type |-> "refresh", is_admin |-> FALSE] }
TokenDeltas == {<<>>, <<0>>, <<1>>, <<Minutes(ACCESS_TOKEN_EXPIRE_MINUTES)>>}
TokenTickSteps == {1, Minutes(ACCESS_TOKEN_EXPIRE_MINUTES)}

InitToken ==
    /\ cfg = NoConfig
    /\ clock = 0
    /\ ticks = 0
    /\ users = <<>>
    /\ schools = {}
    /\ teachers = {}
    /\ students = {}
    /\ documents = <<>>
    /\ blob = <<>>
    /\ issued = {}
    /\ resp = InitialResp
    /\ kin = NoCall
    /\ kout = NoCall
    /\ tin = NoCall
    /\ tok = NoToken
    /\ assoc = <<>>
    /\ flight = <<>>

\* a direct call of create_access_token(data, expires_delta)
CallCreateAccessToken(data, expires_delta) ==
    /\ tok = NoToken
    /\ tin' = [fn |-> "create_access_token", data |-> data,
               expires_delta |-> expires_delta, at |-> clock]
    /\ tok' = create_access_token(data, expires_delta, clock)
    /\ UNCHANGED <<cfg, clock, ticks, users, schools, teachers, students, documents,
                   blob, issued, resp, kin, kout, assoc, flight>>

\* a direct call of create_refresh_token(data, expires_delta)
CallCreateRefreshToken(data, expires_delta) ==
    /\ tok = NoToken
    /\ tin' = [fn |-> "create_refresh_token", data |-> data,
               expires_delta |-> expires_delta, at |-> clock]
    /\ tok' = create_refresh_token(data, expires_delta, clock)
    /\ UNCHANGED <<cfg, clock, ticks, users, schools, teachers, students, documents,
                   blob, issued, resp, kin, kout, assoc, flight>>

\* the created token is presented as the bearer of a protected request
VerifyToken ==
    /\ tok # NoToken
    /\ LET current == get_current_user(tok, clock)
       IN  resp' = IF current.ok
                   THEN Reply("verify", [bearer |-> tok, at |-> clock], 200, "",
                              NoDetails, current, TRUE, 0, 0, 0)
                   ELSE Denied("verify", [bearer |-> tok, at |-> clock], current)
    /\ UNCHANGED <<cfg, clock, ticks, users, schools, teachers, students, documents,
                   blob, issued, kin, kout, tin, tok, assoc, flight>>

NextToken ==
    \/ \E d \in TokenData, e \in TokenDeltas : CallCreateAccessToken(d, e)
    \/ \E d \in TokenData, e \in TokenDeltas : CallCreateRefreshToken(d, e)
    \/ VerifyToken
    \/ \E d \in TokenTickSteps : Tick(d)

SpecToken == InitToken /\ [][NextToken]_vars

-----------------------------------------------------------------------------
(* Specification of requests that meet an exception of no listed kind:     *)
(* student 1 and school 1 exist, storage is configured, and the file of an *)
(* upload can fail to read or the teacher lookup can raise.                *)

\* the texts of the exceptions raised (str(exc))
ExcTexts == {"disk I/O error"}
ErrFiles ==
    {f \in Files : f.filename # "" /\ ~FileTooLarge(f)}
        \cup {[filename |-> "f.pdf", size |-> 10, content |-> "p1", read_error |-> e] :
                 e \in ExcTexts}
ErrNames == {<<"a">>, <<"b">>}
\* <<>>: the lookup of get_teacher raises nothing
ErrFaults == {<<>>} \cup {<<e>> : e \in ExcTexts}

InitErr ==
    /\ cfg = LatestConfig
    /\ clock = 0
    /\ ticks = 0
    /\ users = <<AliceRow>>
    /\ schools = {SchoolA}
    /\ teachers = {}
    /\ students = {1}
    /\ documents = <<>>
    /\ blob = <<>>
    /\ issued = {AliceAccess, AliceRefresh}
    /\ resp = InitialResp
    /\ kin = NoCall
    /\ kout = NoCall
    /\ tin = NoCall
    /\ tok = NoToken
    /\ assoc = <<>>
    /\ flight = <<>>

NextErr ==
    \/ \E f \in ErrFiles, n \in ErrNames :
           upload_student_document(AliceAccess, 1, f, n, <<"t">>, TRUE, TRUE)
    \/ \E sal \in Salaries : create_teacher(AliceAccess, SchoolA.id, sal)
    \/ \E tid \in RelTeacherIds : delete_teacher(AliceAccess, tid)
    \/ \E b \in RelBearers, tid \in RelTeacherIds, fault \in ErrFaults :
           get_teacher(b, tid, fault)

SpecErr == InitErr /\ [][NextErr]_vars

-----------------------------------------------------------------------------
(* Specification of the token lifecycle alone: users register (as admin or *)
(* not), log in and refresh with any token they can present, while the     *)
(* clock advances.                                                         *)

NextSession ==
    \/ \E u \in Usernames, p \in RegisterPasswords, a \in BOOLEAN : register_user(u, p, a)
    \/ \E u \in Usernames \cup UnknownUsernames, p \in Passwords : Login(u, p)
    \/ \E t \in Presentable \ {NoToken} : Refresh(t)
    \/ \E d \in TickSteps : Tick(d)

SpecSession == Init /\ [][NextSession]_vars

-----------------------------------------------------------------------------
(* Specification of concurrent registrations: each slot handles one        *)
(* request at a time, the steps of the requests of different slots         *)
(* interleave, and logins run in between.                                  *)

Slots == 1..MaxFlights
RegUsernames == Usernames \cup UnknownUsernames

InitRegister ==
    /\ cfg = NoConfig
    /\ clock = 0
    /\ ticks = 0
    /\ users = <<>>
    /\ schools = {}
    /\ teachers = {}
    /\ students = {}
    /\ documents = <<>>
    /\ blob = <<>>
    /\ issued = {}
    /\ resp = InitialResp
    /\ kin = NoCall
    /\ kout = NoCall
    /\ tin = NoCall
    /\ tok = NoToken
    /\ assoc = <<>>
    /\ flight = [slot \in Slots |-> Idle]

NextRegister ==
    \/ \E slot \in Slots, u \in RegUsernames, p \in RegisterPasswords, a \in BOOLEAN :
           register_user_begin(slot, u, p, a)
    \/ \E slot \in Slots : register_user_end(slot)
    \/ \E u \in RegUsernames, p \in Passwords : Login(u, p)

SpecRegister == InitRegister /\ [][NextRegister]_vars

-----------------------------------------------------------------------------
(* Specification of concurrent uploads for student 1 under document names  *)
(* that trim to the same name: each slot handles one upload at a time and  *)
(* the steps of the uploads of different slots interleave.  The document   *)
(* type of an upload names its payload.                                    *)

RaceUploads ==
    { [file |-> [filename |-> "f.pdf", size |-> 10, content |-> "p1", read_error |-> ""],
       document_name |-> <<"a">>, document_type |-> <<"1">>],
      [file |-> [filename |-> "f.pdf", size |-> max_bytes, content |-> "p2", read_error |-> ""],
       document_name |-> <<" ", "a">>, document_type |-> <<"2">>] }

InitRace ==
    /\ cfg = LatestConfig
    /\ clock = 0
    /\ ticks = 0
    /\ users = <<AliceRow>>
    /\ schools = {}
    /\ teachers = {}
    /\ students = {1}
    /\ documents = <<>>
    /\ blob = <<>>
    /\ issued = {AliceAccess, AliceRefresh}
    /\ resp = InitialResp
    /\ kin = NoCall
    /\ kout = NoCall
    /\ tin = NoCall
    /\ tok = NoToken
    /\ assoc = <<>>
    /\ flight = [slot \in Slots |-> Idle]

\* the steps of the uploads
RaceUploadSteps ==
    \/ \E slot \in Slots, u \in RaceUploads :
           upload_student_document_begin(slot, AliceAccess, 1, u.file, u.document_name,
                                         u.document_type)
    \/ \E slot \in Slots : upload_student_document_put(slot)
    \/ \E slot \in Slots : upload_student_document_commit(slot)

NextRace ==
    \/ RaceUploadSteps
    \/ (ticks < MaxDocTicks /\ Tick(1))

SpecRace == InitRace /\ [][NextRace]_vars

\* the concurrent uploads together with the requests that are handled in
\* one step between their steps: student 1 is deleted and created again,
\* the documents are listed and the latest one is downloaded
NextRaceDocs ==
    \/ RaceUploadSteps
    \/ create_student(AliceAccess)
    \/ delete_student(AliceAccess, 1)
    \/ \E docs \in get_student_documents_by_student(documents, 1) :
           list_student_documents(AliceAccess, 1, docs, {})
    \/ \E docs \in get_student_documents_by_student(documents, 1) :
           download_latest_document_for_student(AliceAccess, 1, docs, TRUE)
    \/ (ticks < MaxDocTicks /\ Tick(1))

SpecRaceDocs == InitRace /\ [][NextRaceDocs]_vars

-----------------------------------------------------------------------------
(* Properties                                                              *)

DocumentOps == {"upload", "list", "download"}
ProtectedOps == {"create_school", "create_teacher", "get_teacher_salary",
                 "create_student", "delete_student"}

\* the token is a JWT signed with the shared secret whose exp has not
\* passed at time now
SignedAndUnexpired(t, now) ==
    /\ "claims" \in DOMAIN t
    /\ t.key = SECRET_KEY
    /\ t.claims.exp >= now

\* a bearer that authenticates a request at time now
AuthenticBearer(t, now) ==
    SignedAndUnexpired(t, now) /\ "sub" \in DOMAIN t.claims

\* the step handles a request whose operation is one of ops
Handles(ops) == resp' # resp /\ resp'.op \in ops

\* C1: every request to the student-document operations (upload, list,
\* download) is authenticated first: one that carries no bearer token, or
\* an invalid one, gets 401 and makes no relational-store read, no storage
\* call and no metadata write.
C1_DocumentsAuthenticatedFirst ==
    [][ (Handles(DocumentOps) /\ ~AuthenticBearer(resp'.req.bearer, clock))
          => /\ resp'.status = 401
             /\ resp'.dbReads = 0
             /\ resp'.blobCalls = 0
             /\ resp'.dbWrites = 0
             /\ documents' = documents
             /\ blob' = blob ]_vars

\* C2: a refresh token presented as the bearer of a protected endpoint is
\* rejected with 401: for every token returned in the refresh_token field
\* by login or refresh, the protected handler is never run.
C2_RefreshTokenRejectedAsBearer ==
    [][ (/\ Handles(ProtectedOps)
         /\ resp'.req.bearer \in issued
         /\ resp'.req.bearer.claims.type = "refresh")
          => (resp'.status = 401 /\ ~resp'.ran) ]_vars

\* C3: for every student id, trimmed document name, bucket and both URL
\* styles, the key extracted from the object URL of the key
\* students/{studentId}/{documentName} is that key.
C3_KeyRoundTrip ==
    kout # NoCall => kout.extracted = kout.key

\* C4: an access token created with a lifetime of zero has exp equal to its
\* issue time and is rejected by token verification at every later time.
C4_ZeroTtlExpiresAtOnce ==
    (/\ tin # NoCall
     /\ tin.fn = "create_access_token"
     /\ tin.expires_delta = <<0>>)
      => /\ tok.claims.exp = tin.at
         /\ (resp.op = "verify" /\ resp.req.at > tin.at) => resp.status = 401

\* C5: refresh with a validly signed, unexpired token whose type is not
\* "refresh" (in particular an access token issued by login or refresh)
\* fails with 400 "Invalid token type" and issues no token.
C5_RefreshRejectsOtherKinds ==
    [][ (/\ Handles({"refresh"})
         /\ SignedAndUnexpired(resp'.req.refresh_token, clock)
         /\ ~(/\ "type" \in DOMAIN resp'.req.refresh_token.claims
              /\ resp'.req.refresh_token.claims.type = "refresh"))
          => /\ resp'.status = 400
             /\ resp'.error = "Invalid token type"
             /\ resp'.body = NoBody
             /\ issued' = issued ]_vars

\* C5 witness: refresh was called with an access token that a login or a
\* refresh issued and that is still valid, and answered 400
C5_Witness ==
    /\ resp.op = "refresh"
    /\ resp.req.refresh_token \in issued
    /\ SignedAndUnexpired(resp.req.refresh_token, clock)
    /\ resp.req.refresh_token.claims.type = "access"
    /\ resp.status = 400

\* the refresh token R that refresh takes: signed with the shared secret,
\* unexpired at time now, of type refresh, with a non-empty sub
ValidRefreshToken(t, now) ==
    /\ SignedAndUnexpired(t, now)
    /\ "type" \in DOMAIN t.claims
    /\ t.claims.type = "refresh"
    /\ "sub" \in DOMAIN t.claims
    /\ t.claims.sub # ""

\* the is_admin a token decodes to (absent counts as false)
DecodedIsAdmin(t) == "is_admin" \in DOMAIN t.claims /\ t.claims.is_admin

\* C6: for every valid refresh token R, refresh(R) succeeds (200), both the
\* access token and the refresh token it returns decode to the same sub and
\* the same is_admin as R, and the is_admin of the response envelope is R's
\* is_admin; R is any valid refresh token, so also one returned by an
\* earlier refresh in a chain that starts at a login.
C6_ClaimPropagationOnRefresh ==
    [][ (/\ Handles({"refresh"})
         /\ ValidRefreshToken(resp'.req.refresh_token, clock))
          => LET R == resp'.req.refresh_token
             IN  /\ resp'.status = 200
                 /\ resp'.body.access_token.claims.sub = R.claims.sub
                 /\ resp'.body.refresh_token.claims.sub = R.claims.sub
                 /\ DecodedIsAdmin(resp'.body.access_token) = DecodedIsAdmin(R)
                 /\ DecodedIsAdmin(resp'.body.refresh_token) = DecodedIsAdmin(R)
                 /\ resp'.body.is_admin = DecodedIsAdmin(R)
                 /\ resp'.body.access_token.claims.type = "access"
                 /\ ValidRefreshToken(resp'.body.refresh_token, clock) ]_vars

\* C6 witness: a refresh answered 200 for an admin's refresh token, issued
\* by a login or an earlier refresh, at a later time than that token was
\* issued; the envelope says admin
C6_Witness ==
    /\ resp.op = "refresh"
    /\ resp.status = 200
    /\ resp.req.refresh_token \in issued
    /\ resp.req.refresh_token.claims.is_admin
    /\ resp.body.is_admin
    /\ resp.body.refresh_token.claims.exp > resp.req.refresh_token.claims.exp

\* C7: a protected request runs its handler only when its bearer token is
\* signed with the shared secret, unexpired and carries sub; every other
\* protected request is answered 401 and its handler does not run.  Refresh
\* with an expired or badly signed (or undecodable) token answers 401 and
\* issues no token.
C7_TokenVerification ==
    [][ /\ Handles(ProtectedOps)
          => IF AuthenticBearer(resp'.req.bearer, clock)
             THEN resp'.status # 401
             ELSE /\ resp'.status = 401
                  /\ ~resp'.ran
                  /\ resp'.body = NoBody
                  /\ resp'.dbReads = 0 /\ resp'.dbWrites = 0
                  /\ schools' = schools /\ teachers' = teachers
        /\ (/\ Handles({"refresh"})
            /\ resp'.req.refresh_token # EmptyToken
            /\ ~SignedAndUnexpired(resp'.req.refresh_token, clock))
          => /\ resp'.status = 401
             /\ resp'.body = NoBody
             /\ issued' = issued ]_vars

\* C7 witness: a protected request carrying a token that a login or refresh
\* issued and that has expired was answered 401 without running the handler
C7_Witness ==
    /\ resp.op \in ProtectedOps
    /\ resp.req.bearer \in issued
    /\ resp.req.bearer.claims.exp < clock
    /\ resp.status = 401
    /\ ~resp.ran

\* C8 as stated: on the teacher-salary endpoint a valid non-admin token gets
\* 403 and never the salary, and a valid admin token receives 200.
C8_AdminGuardOriginal ==
    [][ (/\ Handles({"get_teacher_salary"})
         /\ AuthenticBearer(resp'.req.bearer, clock))
          => IF DecodedIsAdmin(resp'.req.bearer)
             THEN resp'.status = 200
             ELSE resp'.status = 403 /\ resp'.body = NoBody ]_vars

\* C8 amended: on the teacher-salary endpoint a valid non-admin token gets
\* 403, the handler does not run and no salary is returned; a valid admin
\* token passes the guard (never 403, the handler runs) and receives 200
\* with the teacher's salary when the teacher exists and 404 when not.
C8_AdminGuard ==
    [][ (/\ Handles({"get_teacher_salary"})
         /\ AuthenticBearer(resp'.req.bearer, clock))
          => IF DecodedIsAdmin(resp'.req.bearer)
             THEN /\ resp'.ran
                  /\ IF \E t \in teachers : t.id = resp'.req.teacher_id
                     THEN /\ resp'.status = 200
                          /\ \E t \in teachers :
                                /\ t.id = resp'.req.teacher_id
                                /\ resp'.body = [teacher_id |-> t.id, salary |-> t.salary]
                     ELSE resp'.status = 404 /\ resp'.body = NoBody
             ELSE /\ resp'.status = 403
                  /\ ~resp'.ran
                  /\ resp'.body = NoBody ]_vars

\* C8 witness: a valid non-admin token asked for the salary of a teacher
\* that exists and was answered 403
C8_Witness ==
    /\ resp.op = "get_teacher_salary"
    /\ resp.req.bearer \in issued
    /\ AuthenticBearer(resp.req.bearer, clock)
    /\ ~resp.req.bearer.claims.is_admin
    /\ \E t \in teachers : t.id = resp.req.teacher_id
    /\ resp.status = 403

\* C9: a login with non-empty username and password that fails because the
\* username is unknown, or because the password is wrong for an existing
\* username, gets in both cases the same response (401, the same generic
\* message, no details, no body), issues no token and changes no state.
C9_LoginFailureIndistinguishable ==
    [][ (/\ Handles({"login"})
         /\ resp'.req.username # ""
         /\ resp'.req.password # ""
         /\ ~\E i \in 1..Len(users) :
                /\ users[i].username = resp'.req.username
                /\ users[i].password_hash.of = resp'.req.password)
          => /\ [resp' EXCEPT !.req = NoBody] =
                    [op |-> "login", req |-> NoBody, status |-> 401,
                     error |-> "Incorrect username or password",
                     details |-> NoDetails, body |-> NoBody, ran |-> TRUE,
                     dbReads |-> 1, dbWrites |-> 0, blobCalls |-> 0]
             /\ issued' = issued
             /\ UNCHANGED <<users, schools, teachers, students, documents, blob>> ]_vars

\* C9 witness: a login with the wrong password for a registered username was
\* answered 401
C9_Witness ==
    /\ resp.op = "login"
    /\ \E i \in 1..Len(users) :
          /\ users[i].username = resp.req.username
          /\ users[i].password_hash.of # resp.req.password
    /\ resp.req.password # ""
    /\ resp.status = 401

\* the stages of upload that come before the size check pass: the fields
\* are valid, the bucket is configured and the student exists
UploadReachesSizeCheck(r) ==
    /\ r.student_id > 0
    /\ Strip(r.document_name) # <<>>
    /\ Strip(r.document_type) # <<>>
    /\ r.file.filename # ""
    /\ cfg.s3_bucket # <<>>
    /\ r.student_id \in students

\* C10 as stated: an upload of more than 5*1024*1024 bytes returns 413,
\* makes no call to the blob store and creates no metadata row; a file of
\* exactly 5*1024*1024 bytes is not rejected for size.
C10_OversizeUploadOriginal ==
    [][ Handles({"upload"})
          => /\ resp'.req.file.size > 5 * 1024 * 1024
                  => /\ resp'.status = 413
                     /\ resp'.blobCalls = 0
                     /\ documents' = documents
             /\ resp'.req.file.size = 5 * 1024 * 1024 => resp'.status # 413 ]_vars

\* C10 amended: an upload of more than 5*1024*1024 bytes makes no call to
\* the blob store, stores nothing and creates no metadata row, and it
\* returns 413 "File too large" whenever the stages before the size check
\* pass (valid fields, bucket configured, student exists); a file of at most
\* 5*1024*1024 bytes is never answered 413.
C10_OversizeUpload ==
    [][ Handles({"upload"})
          => /\ resp'.req.file.size > 5 * 1024 * 1024
                  => /\ resp'.blobCalls = 0
                     /\ resp'.dbWrites = 0
                     /\ documents' = documents
                     /\ blob' = blob
                     /\ resp'.status \in {400, 404, 413, 500}
                     /\ UploadReachesSizeCheck(resp'.req)
                          => /\ resp'.status = 413
                             /\ resp'.error = "File too large"
             /\ resp'.req.file.size <= 5 * 1024 * 1024 => resp'.status # 413 ]_vars

\* C10 witness: an upload of more than 5*1024*1024 bytes for an existing
\* student was answered 413 after a file of exactly 5*1024*1024 bytes had
\* been stored
C10_Witness ==
    /\ resp.op = "upload"
    /\ resp.req.file.size > 5 * 1024 * 1024
    /\ resp.status = 413
    /\ \E k \in DOMAIN blob : blob[k] = "p2"

\* the fields of an upload request are valid in themselves
UploadFieldsValid(r) ==
    /\ r.student_id > 0
    /\ Strip(r.document_name) # <<>>
    /\ Strip(r.document_type) # <<>>
    /\ r.file.filename # ""

UploadFirstFailure(r) ==
    IF ~UploadFieldsValid(r) THEN 400
    ELSE IF cfg.s3_bucket = <<>> THEN 500
    ELSE IF r.student_id \notin students THEN 404
    ELSE IF r.file.size > 5 * 1024 * 1024 THEN 413
    ELSE 0

\* C12: an upload goes through its stages in the order validate inputs,
\* check storage configured, check student exists, validate size, upload to
\* storage, persist the metadata row, respond 201.  The response is the
\* error of the first stage that fails and no later stage is executed: an
\* input-validation failure comes before any relational-store read or
\* storage call, the configuration failure before any read, the 404 and the
\* 413 before any storage call, the storage failure before any write.
C12_UploadStagesInOrder ==
    [][ Handles({"upload"})
          => LET st == UploadFirstFailure(resp'.req)
             IN  /\ st = 400
                      => /\ resp'.status = 400
                         /\ resp'.dbReads = 0 /\ resp'.blobCalls = 0 /\ resp'.dbWrites = 0
                 /\ st = 500
                      => /\ resp'.status = 500
                         /\ resp'.error = "S3 bucket not configured (AWS_S3_BUCKET)"
                         /\ resp'.dbReads = 0 /\ resp'.blobCalls = 0 /\ resp'.dbWrites = 0
                 /\ st = 404
                      => /\ resp'.status = 404
                         /\ resp'.dbReads = 1 /\ resp'.blobCalls = 0 /\ resp'.dbWrites = 0
                 /\ st = 413
                      => /\ resp'.status = 413
                         /\ resp'.blobCalls = 0 /\ resp'.dbWrites = 0
                 /\ st = 0
                      => \/ /\ resp'.status = 500
                            /\ resp'.error = "Failed to upload file to S3"
                            /\ resp'.blobCalls = 1 /\ resp'.dbWrites = 0
                            /\ blob' = blob
                         \/ /\ resp'.status = 500
                            /\ resp'.error = "Failed to save document metadata"
                            /\ resp'.blobCalls = 1
                         \/ /\ resp'.status = 201
                            /\ resp'.blobCalls = 1 /\ resp'.dbWrites = 1
                            /\ Len(documents') = Len(documents) + 1
                 /\ resp'.status # 201 => documents' = documents
                 /\ resp'.blobCalls = 0 => blob' = blob ]_vars

\* C12 witness: an upload with a blank document name was answered 400
\* although no bucket is configured and the student does not exist
C12_Witness ==
    /\ resp.op = "upload"
    /\ resp.status = 400
    /\ resp.req.student_id > 0
    /\ resp.req.student_id \notin students
    /\ cfg.s3_bucket = <<>>

\* the rows of table docs that belong to student sid and carry the name
RowsNamed(docs, sid, name) ==
    {i \in 1..Len(docs) : docs[i].student_id = sid /\ docs[i].document_name = name}

\* C13: after a successful upload that follows an earlier successful upload
\* with the same student id and the same trimmed document name, the blob
\* store holds at key students/{studentId}/{documentName} the content of
\* the second upload, and the relational store holds (at least) two
\* distinct rows for that name whose s3_url all derive, via
\* extract_key_from_url, to that key.
C13_SecondUploadOverwrites ==
    [][ (/\ Handles({"upload"})
         /\ resp'.status = 201
         /\ RowsNamed(documents, resp'.req.student_id,
                      Strip(resp'.req.document_name)) # {})
          => LET sid  == resp'.req.student_id
                 name == Strip(resp'.req.document_name)
                 key  == DocumentKey(sid, name)
                 rows == RowsNamed(documents', sid, name)
             IN  /\ key \in DOMAIN blob'
                 /\ blob'[key] = resp'.req.file.content
                 /\ Cardinality(rows) >= 2
                 /\ \A i, j \in rows : i # j => documents'[i].id # documents'[j].id
                 /\ \A i \in rows :
                       extract_key_from_url(documents'[i].s3_url, cfg.s3_bucket) = key ]_vars

\* the row of the last upload for student sid in table docs (rows are kept
\* in insert order)
LastRowOf(docs, sid) ==
    LET idx == {i \in 1..Len(docs) : docs[i].student_id = sid}
    IN  docs[CHOOSE i \in idx : \A j \in idx : j <= i]

\* C16: after any sequence of successful sequential uploads for student s,
\* download-latest answers 200 and streams the bytes of the last upload
\* for s with Content-Disposition attachment and that upload's trimmed
\* document name.
C16_DownloadLatestIsLastUpload ==
    [][ (/\ Handles({"download"})
         /\ resp'.req.student_id \in students
         /\ \E i \in 1..Len(documents) : documents[i].student_id = resp'.req.student_id)
          => LET last == LastRowOf(documents, resp'.req.student_id)
             IN  /\ resp'.status = 200
                 /\ resp'.body.content =
                        blob[DocumentKey(last.student_id, last.document_name)]
                 /\ resp'.body.content_disposition = <<"attachment">> \o last.document_name ]_vars

\* C14: for an existing student, list-documents returns exactly the
\* metadata rows of that student, each once, ordered so that a document
\* uploaded later (a row inserted later, with the greater id) never appears
\* after a document uploaded earlier.
C14_ListLatestFirst ==
    [][ (/\ Handles({"list"})
         /\ resp'.req.student_id \in students)
          => LET res == resp'.body.results
                 own == {i \in 1..Len(documents) :
                            documents[i].student_id = resp'.req.student_id}
             IN  /\ resp'.status = 200
                 /\ Len(res) = Cardinality(own)
                 /\ {res[k].id : k \in 1..Len(res)} = {documents[i].id : i \in own}
                 /\ \A a, b \in 1..Len(res) : a < b => res[a].id > res[b].id ]_vars

\* C15: list-documents tolerates partial presign failure: whatever subset
\* of the student's rows fails to presign, the response is 200 and holds
\* one entry per metadata row of the student, with the fields of that row,
\* in the order of the query (upload time descending), and download_url is
\* null exactly for the rows whose presign failed and non-null for the
\* others.  (Presigning takes a configured bucket; without one no URL is
\* generated and every download_url is null.)
C15_ListToleratesPresignFailure ==
    [][ (/\ Handles({"list"})
         /\ resp'.req.student_id \in students)
          => LET res == resp'.body.results
                 own == {i \in 1..Len(documents) :
                            documents[i].student_id = resp'.req.student_id}
             IN  /\ resp'.status = 200
                 /\ Len(res) = Cardinality(own)
                 /\ {res[k].id : k \in 1..Len(res)} = {documents[i].id : i \in own}
                 /\ \A k \in 1..Len(res) : \E i \in own :
                       /\ res[k].id = documents[i].id
                       /\ res[k].document_name = documents[i].document_name
                       /\ res[k].s3_url = documents[i].s3_url
                       /\ res[k].uploaded_at = documents[i].uploaded_at
                 /\ \A a, b \in 1..Len(res) :
                       a < b => res[a].uploaded_at >= res[b].uploaded_at
                 /\ \A k \in 1..Len(res) :
                       IF cfg.s3_bucket # <<>>
                       THEN (res[k].download_url = <<>>)
                                <=> (res[k].id \in resp'.req.presign_failed)
                       ELSE res[k].download_url = <<>> ]_vars

\* C15 witness: a list of two documents was answered 200 with the download
\* URL of one entry null, because its presign failed, and the other set
C15_Witness ==
    /\ resp.op = "list"
    /\ resp.status = 200
    /\ Len(resp.body.results) = 2
    /\ \E a, b \in 1..2 :
          /\ resp.body.results[a].download_url = <<>>
          /\ resp.body.results[a].id \in resp.req.presign_failed
          /\ resp.body.results[b].download_url # <<>>

C18_CommitFailureLeavesOrphan ==
    [][ (/\ Handles({"upload"})
         /\ UploadFirstFailure(resp'.req) = 0
         /\ resp'.req.storage_ok
         /\ ~resp'.req.commit_ok)
          => LET key == DocumentKey(resp'.req.student_id, resp'.req.document_name)
             IN  /\ resp'.status = 500
                 /\ resp'.error = "Failed to save document metadata"
                 /\ resp'.body = NoBody
                 /\ documents' = documents
                 /\ key \in DOMAIN blob'
                 /\ blob'[key] = resp'.req.file.content
                 /\ \A k \in DOMAIN blob : k \in DOMAIN blob'
                 /\ resp'.blobCalls = 1 ]_vars

\* C18 witness: an upload whose commit failed was answered 500 and its
\* object is in the bucket while the documents table has no row at all
C18_Witness ==
    /\ resp.op = "upload"
    /\ resp.req.storage_ok
    /\ ~resp.req.commit_ok
    /\ resp.status = 500
    /\ documents = <<>>
    /\ DocumentKey(resp.req.student_id, resp.req.document_name) \in DOMAIN blob

\* C19: document metadata rows are deleted with their student: after
\* delete_student(s) succeeds no row of student_documents has
\* student_id = s, whatever uploads preceded the delete.
C19_DocumentsDeletedWithStudent ==
    [][ (/\ Handles({"delete_student"})
         /\ resp'.status = 204)
          => \A i \in 1..Len(documents') :
                documents'[i].student_id # resp'.req.student_id ]_vars

\* no (student, teacher) pair is in the association table twice
NoDuplicatePair(rows) ==
    \A i, j \in 1..Len(rows) : rows[i] = rows[j] => i = j

\* C20: assigning a teacher to a student is idempotent: for an existing
\* student s and an existing teacher t every assign(s, t), the first and
\* each repeated one, answers 204 and leaves exactly one (s, t) row and the
\* other rows as they were; and the association table holds no pair twice
\* in any reachable state.
C20_AssignIdempotent ==
    [][ /\ NoDuplicatePair(assoc')
        /\ (/\ Handles({"assign_teacher_to_student"})
            /\ AuthenticBearer(resp'.req.bearer, clock)
            /\ resp'.req.student_id \in students
            /\ \E t \in teachers : t.id = resp'.req.teacher_id)
             => LET pair == [student_id |-> resp'.req.student_id,
                             teacher_id |-> resp'.req.teacher_id]
                    Is(row) == row = pair
                    IsNot(row) == row # pair
                IN  /\ resp'.status = 204
                    /\ Len(SelectSeq(assoc', Is)) = 1
                    /\ SelectSeq(assoc', IsNot) = SelectSeq(assoc, IsNot)
                    /\ Len(SelectSeq(assoc, Is)) = 1 => assoc' = assoc ]_vars

\* C20 witness: an assign of a pair that was already assigned was answered
\* 204 without a write, and the pair is in the table
C20_Witness ==
    /\ resp.op = "assign_teacher_to_student"
    /\ resp.status = 204
    /\ resp.dbWrites = 0
    /\ \E i \in 1..Len(assoc) :
          assoc[i] = [student_id |-> resp.req.student_id,
                      teacher_id |-> resp.req.teacher_id]

\* the text e occurs in the text s
Contains(s, e) ==
    \E i \in 1..(Len(s) - Len(e) + 1) : SubSeq(s, i, i + Len(e) - 1) = e

\* the text of the exception of no listed kind that the request of response
\* r met, "" when it met none: the lookup of get_teacher raised, or the
\* upload got as far as reading a file that fails to read
UnrecognisedText(r) ==
    CASE r.op = "get_teacher" /\ r.ran /\ r.req.fault # <<>> -> r.req.fault[1]
      [] r.op = "upload" /\ UploadReachesSizeCheck(r.req) -> r.req.file.read_error
      [] OTHER -> ""

\* the content of response r (error, details) holds the text e
ContentHolds(r, e) ==
    \/ Contains(r.error, e)
    \/ /\ r.details # NoDetails
       /\ \E k \in DOMAIN r.details : Contains(r.details[k], e)

\* C21: an exception that is not one of the recognised error kinds is
\* reported to the client as a 500 InternalError whose content does not
\* contain the text of the underlying exception.
C21_UnrecognisedExceptionHidden ==
    [][ (/\ Handles({"get_teacher", "upload"})
         /\ UnrecognisedText(resp') # "")
          => /\ resp'.status = 500
             /\ ~ContentHolds(resp', UnrecognisedText(resp')) ]_vars

\* the insert of create_school for request req violates the unique index on
\* schools.name: the handler's query by the name as sent finds no school,
\* and a school whose stored name is the trimmed name exists
CreateSchoolViolatesUnique(req) ==
    /\ AuthenticBearer(req.bearer, clock)
    /\ Strip(req.name) # <<>>
    /\ ~\E sc \in schools : sc.name = req.name
    /\ \E sc \in schools : sc.name = Strip(req.name)

\* C22: whenever a relational-store write fails because of a unique or
\* foreign-key constraint violation (here the insert of create_school), the
\* client receives 409 or another 400-class response, never a 500-class
\* response.
C22_ConstraintViolationIsClientError ==
    [][ (/\ Handles({"create_school"})
         /\ CreateSchoolViolatesUnique(resp'.req))
          => /\ resp'.status >= 400
             /\ resp'.status < 500 ]_vars

\* a refresh token in every respect but exp: signed with the shared secret,
\* of type refresh, with a non-empty sub
RefreshTokenShape(t) ==
    /\ "claims" \in DOMAIN t
    /\ t.key = SECRET_KEY
    /\ "type" \in DOMAIN t.claims
    /\ t.claims.type = "refresh"
    /\ "sub" \in DOMAIN t.claims
    /\ t.claims.sub # ""

DecodedType(t) == IF "type" \in DOMAIN t.claims THEN t.claims.type ELSE ""

\* C24: in every response of login and of refresh that carries tokens, the
\* token in the refresh_token field decodes to type "refresh" and the token
\* in the access_token field decodes to type "access" (not "refresh"),
\* whoever logs in and whatever valid refresh token is presented.
C24_TokenKinds ==
    [][ (/\ Handles({"login", "refresh"})
         /\ resp'.status = 200)
          => /\ DecodedType(resp'.body.refresh_token) = "refresh"
             /\ DecodedType(resp'.body.access_token) # "refresh"
             /\ DecodedType(resp'.body.access_token) = "access" ]_vars

\* C24 witness: a refresh answered 200 with tokens made later than the
\* refresh token it was given, and an admin's login tokens are among the
\* issued ones
C24_Witness ==
    /\ resp.op = "refresh"
    /\ resp.status = 200
    /\ DecodedType(resp.body.refresh_token) = "refresh"
    /\ DecodedType(resp.body.access_token) = "access"
    /\ resp.body.refresh_token.claims.exp > resp.req.refresh_token.claims.exp
    /\ resp.body.is_admin

\* no two rows of the users table u have the same username
NoTwoRowsPerUsername(u) ==
    \A i, j \in 1..Len(u) : u[i].username = u[j].username => i = j

\* C25: usernames are unique in every reachable state, under any
\* interleaving of the steps of concurrent register_user requests; a
\* registration that is answered when its username already has a row
\* creates no row and is answered with an error, never with 201.
C25_UsernamesUnique ==
    [][ /\ NoTwoRowsPerUsername(users')
        /\ (/\ Handles({"register"})
            /\ \E i \in 1..Len(users) : users[i].username = resp'.req.username)
             => /\ resp'.status >= 400
                /\ users' = users ]_vars

\* C25 witness: a registration that found no user with its username when
\* it looked was refused at its insert, because a concurrent registration
\* had inserted the username by then; the username has one row
C25_Witness ==
    /\ resp.op = "register"
    /\ resp.status = 409
    /\ resp.dbWrites = 1
    /\ Cardinality({i \in 1..Len(users) : users[i].username = resp.req.username}) = 1

\* slot takes the storage step of its upload in this step
PutsObject(slot) ==
    /\ flight[slot].op = "upload"
    /\ flight[slot].pc = "put"
    /\ flight'[slot].op = "upload"
    /\ flight'[slot].pc = "commit"

\* C26: concurrent uploads for the same student whose names trim to the
\* same name take no lock and all succeed with 201, for every interleaving
\* of their steps: each storage write puts its payload at the shared key
\* over whatever an earlier write of any request left there, and no other
\* step changes the object, so the one object at the key holds the payload
\* of the storage write that happened last; each upload adds one metadata
\* row, so two uploads leave two rows.
C26_ConcurrentUploadsLastWriteWins ==
    [][ /\ \A slot \in Slots :
              PutsObject(slot)
                => /\ flight[slot].key = DocumentKey(1, <<"a">>)
                   /\ blob' = (flight[slot].key :> flight[slot].req.file.content)
                   /\ documents' = documents
        /\ (~\E slot \in Slots : PutsObject(slot)) => blob' = blob
        /\ Handles({"upload"})
              => /\ resp'.status = 201
                 /\ Len(documents') = Len(documents) + 1
                 /\ SubSeq(documents', 1, Len(documents)) = documents
                 /\ RowsNamed(documents', 1, <<"a">>) = 1..Len(documents')
                 /\ resp'.body = documents'[Len(documents')]
                 /\ extract_key_from_url(resp'.body.s3_url, cfg.s3_bucket)
                       = DocumentKey(1, <<"a">>)
                 /\ DOMAIN blob' = {DocumentKey(1, <<"a">>)} ]_vars

\* C26 witness: two uploads with different payloads have both completed
\* with a row each, and the object at their key holds the payload of the
\* one whose row was inserted first: its storage write happened last
C26_Witness ==
    /\ \A slot \in Slots : flight[slot] = Idle
    /\ Len(documents) = 2
    /\ resp.op = "upload"
    /\ resp.status = 201
    /\ resp.body.id = 2
    /\ documents[1].document_type # documents[2].document_type
    /\ blob[DocumentKey(1, <<"a">>)] # resp.req.file.content

\* C27: create_school ensures name uniqueness with a conflict error: an
\* authenticated request whose name, after trimming, equals the stored
\* name of an existing school is rejected with 409 and creates no school;
\* no two School rows ever have the same stored name.
C27_CreateSchoolConflict ==
    [][ /\ \A a, b \in schools' : a.name = b.name => a = b
        /\ (/\ Handles({"create_school"})
            /\ AuthenticBearer(resp'.req.bearer, clock)
            /\ Strip(resp'.req.name) # <<>>
            /\ \E sc \in schools : sc.name = Strip(resp'.req.name))
             => /\ resp'.status = 409
                /\ schools' = schools ]_vars

\* the payload supplied by the request that inserted row d: the uploads of
\* RaceUploads name their payload in the document type
PayloadOf(d) == IF d.document_type = <<"1">> THEN "p1" ELSE "p2"

\* the rows of student sid in table docs that a query ordered by
\* uploaded_at descending can return first
LatestRows(docs, sid) ==
    {i \in 1..Len(docs) :
        /\ docs[i].student_id = sid
        /\ \A j \in 1..Len(docs) :
              docs[j].student_id = sid => docs[j].uploaded_at <= docs[i].uploaded_at}

\* C28: the bytes streamed by download-latest are those supplied by the
\* upload that created the metadata row it selects, for every interleaving
\* of concurrent uploads for one student: the content of a 200 response is
\* the payload of the request that inserted a latest row of the student.
C28_DownloadMatchesLatestRow ==
    [][ (/\ Handles({"download"})
         /\ resp'.status = 200)
          => \E i \in LatestRows(documents, resp'.req.student_id) :
                PayloadOf(documents[i]) = resp'.body.content ]_vars

\* C29: referential integrity of document metadata: in every reachable
\* state, under any interleaving of the steps of upload_student_document
\* with delete_student, the student_id of every row of student_documents
\* is the id of a row of students.
C29_DocumentsReferToStudents ==
    \A i \in 1..Len(documents) : documents[i].student_id \in students

\* C30: a freshly created student owns no documents: right after
\* create_student returned a student with id n, list-documents for n
\* returns an empty list and download-latest for n returns 404 (storage
\* being configured), whatever creates, uploads and deletes came before.
C30_NewStudentHasNoDocuments ==
    [][ (/\ resp.op = "create_student"
         /\ resp.status = 201
         /\ Handles({"list", "download"})
         /\ resp'.req.student_id = resp.body.id)
          => IF resp'.op = "list"
             THEN /\ resp'.status = 200
                  /\ resp'.body.results = <<>>
             ELSE cfg.s3_bucket # <<>>
                    => /\ resp'.status = 404
                       /\ resp'.error = "Document not found" ]_vars

====
